---- MODULE Spec2Model ----
(***************************************************************************)
(* Network-Monitor: the packet store (packet_store.cpp), the watchlist and *)
(* its alerts (watchlist.cpp), the description database                    *)
(* (descriptions.cpp), the decoder (packet.cpp), the process mapper        *)
(* (process_mapper.cpp), the packet capture (capture.cpp) and the          *)
(* configuration reader (config.cpp), modelled as state machines.          *)
(*                                                                         *)
(* Strings that the code inspects character by character are sequences of  *)
(* one-character strings; strings that the code only copies or compares    *)
(* whole are TLA+ strings.                                                 *)
(***************************************************************************)
EXTENDS Integers, Sequences, FiniteSets, TLC

(***************************************************************************)
(* Bounds of the model.                                                    *)
(***************************************************************************)
\* PacketStore::MAX_PACKETS is 10000 in the source; the model keeps the
\* eviction logic and scales the capacity.
MAX_PACKETS == 2
\* InterfaceStats::MAX_HISTORY is 60 in the source, scaled likewise.
MAX_HISTORY == 2
\* Clock resolution of the model: ticks of the steady clock in one second.
TicksPerSecond == 2
\* Watchlist::MAX_ALERTS is 100 in the source, scaled likewise.
MAX_ALERTS == 2
\* Number of add_alert calls explored: enough to drop two alerts.
MaxAlerts == 4
\* Number of push calls explored: enough to evict twice.
MaxPushes == 4
\* Last instant of the steady clock explored, in ticks: enough for the rate
\* history to overflow once.
MaxTime == 6

\* parse_dns_name follows at most max_jumps pointers (50 in the code).
max_jumps == 3

\* The buffers handed to parse_dns_name hold at most MaxDnsLen bytes.
MaxDnsLen == 4

\* The lines handed to parse_fields hold at most MaxLineLen characters.
MaxLineLen == 4

\* The most packets one pcap_dispatch call hands to packet_callback (10 in
\* capture_loop).
DispatchCount == 1

(***************************************************************************)
(* Protocol constants (packet.hpp).                                        *)
(***************************************************************************)
PROTO_ICMP == 1
PROTO_TCP == 6
PROTO_UDP == 17
PROTO_ICMPV6 == 58
ETHERTYPE_IPV4 == 2048
ETHERTYPE_ARP == 2054
ETHERTYPE_IPV6 == 34525

\* sizeof of the packed header structs (packet.hpp).
EthernetHeaderSize == 14
ARPHeaderSize == 28
IPv4HeaderSize == 20
IPv6HeaderSize == 40
TCPHeaderSize == 20
UDPHeaderSize == 8

\* sizeof(DNSHeader), and the well-known ports parse_packet dispatches on.
DNSHeaderSize == 12
PORT_DNS == 53
PORT_HTTP == 80
PORT_HTTPS == 443

\* The most bytes parse_http_request searches for the Host header.
HttpContentMax == 2048

VARIABLES
    \* ---- PacketStore ----
    packets_,         \* std::deque<PacketInfo>
    stats_,           \* InterfaceStats
    selected_index_,  \* size_t
    mutex_,           \* PacketStore::mutex_: "free" or the thread holding it
    cap_pc,           \* position of the capture thread inside push
    now,              \* std::chrono::steady_clock, in ticks
    npush,            \* number of push calls made so far (bounds the run)
    pushed,           \* history: the records pushed since the last clear
    sel_before,       \* history: the selection when the latest push began
    rate_log,         \* history: the rate samples computed since the last clear
    \* ---- Watchlist: alerts ----
    alerts_,          \* std::deque<Alert>, most recent first
    has_new_alerts_,  \* std::atomic<bool>
    log_filepath_,    \* std::string, "" when no log file is configured
    wl_mutex_,        \* Watchlist::mutex_: "free" or the thread holding it
    wl_pc,            \* position of the capture thread inside add_alert
    wl_alert,         \* the argument of the add_alert call in progress
    log_file,         \* the lines of the alert log file on disk
    nalerts,          \* number of add_alert calls made so far (bounds the run)
    added,            \* history: the alerts added since the last clear_alerts
    unreported,       \* history: add_alert flag stores since the last has_new_alerts
    log_tried,        \* history: per add_alert, whether a log was configured and opened
    \* ---- Watchlist and DescriptionDatabase: entries ----
    wl_entries_,      \* Watchlist::entries_, in load order
    wl_filepath_,     \* Watchlist::filepath_
    wl_loaded_,       \* Watchlist::loaded_
    db_entries_,      \* DescriptionDatabase::entries_, in load order
    db_filepath_,     \* DescriptionDatabase::filepath_
    db_loaded_,       \* DescriptionDatabase::loaded_
    \* ---- ProcessMapper ----
    socket_table_,         \* unordered_map<SocketKey, SocketEntry>, as key/value pairs
    inode_to_process_,     \* unordered_map<uint64_t, ProcessInfo>, as key/value pairs
    process_name_cache_,   \* unordered_map<int32_t, std::string>, as key/value pairs
    last_socket_refresh_,  \* steady_clock::time_point, 0 when default-constructed
    steady_now,            \* std::chrono::steady_clock::now(), in ticks
    proc_fs,               \* /proc/net/tcp, /proc/net/udp and /proc/[pid] as they are now
    pm_log,                \* history: whether the tables were walked since the last clear, and when last
    \* ---- PacketCapture ----
    handle_,          \* pcap_t*: "null" or "open"
    break_loop,       \* the break-loop flag pcap_breakloop sets in the handle
    interface_name_,  \* std::string
    error_,           \* std::string
    running_,         \* std::atomic<bool>
    capture_thread_,  \* std::thread: "none" or "joinable"
    loop_pc,          \* position of the capture thread inside capture_loop
    batch_from,       \* npush when the pcap_dispatch call in progress began
    ui_pc,            \* position of the UI thread inside open, stop and close
    ui_call,          \* the call of the UI thread in progress and its argument
    stop_log,         \* history: the store at the latest cancellation, and what stop did
    \* ---- the four mutexes, as the public functions take them ----
    lk_owner,         \* per mutex: "free" or the thread that holds it
    lk_todo,          \* per thread: the lock and unlock steps left of its call
    \* ---- all ----
    ret               \* the operation that ran last and the value it returned

storeVars == <<packets_, stats_, selected_index_, mutex_, cap_pc, now, npush,
               pushed, sel_before, rate_log>>

alertVars == <<alerts_, has_new_alerts_, log_filepath_, wl_mutex_, wl_pc, wl_alert,
               log_file, nalerts, added, unreported, log_tried>>

matchVars == <<wl_entries_, wl_filepath_, wl_loaded_, db_entries_, db_filepath_,
               db_loaded_>>

mapperVars == <<socket_table_, inode_to_process_, process_name_cache_,
                last_socket_refresh_, steady_now, proc_fs, pm_log>>

captureVars == <<handle_, break_loop, interface_name_, error_, running_,
                 capture_thread_, loop_pc, batch_from, ui_pc, ui_call, stop_log>>

lockVars == <<lk_owner, lk_todo>>

vars == <<storeVars, alertVars, matchVars, mapperVars, captureVars, lockVars, ret>>

\* What the operations of the packet store leave alone.
notStoreVars == <<alertVars, matchVars, mapperVars, captureVars, lockVars>>

\* What the operations on the alerts of the watchlist leave alone.
notAlertVars == <<storeVars, matchVars, mapperVars, captureVars, lockVars>>

\* What loading and querying the watchlist and the descriptions leave alone.
notMatchVars == <<storeVars, alertVars, mapperVars, captureVars, lockVars>>

\* What the functions asked directly, which touch no object, leave alone.
notRetVars == <<storeVars, alertVars, matchVars, mapperVars, captureVars, lockVars>>

\* What the operations of the process mapper leave alone.
notMapperVars == <<storeVars, alertVars, matchVars, captureVars, lockVars>>

\* What the operations of the packet capture leave alone, the store apart.
notCaptureVars == <<alertVars, matchVars, mapperVars, lockVars>>

\* What taking and releasing the mutexes leaves alone.
notLockVars == <<storeVars, alertVars, matchVars, mapperVars, captureVars>>

(***************************************************************************)
(* Helpers.                                                                *)
(***************************************************************************)
Min(a, b) == IF a < b THEN a ELSE b

\* The last n elements of s (all of s when it is shorter).
LastN(s, n) == IF Len(s) <= n THEN s ELSE SubSeq(s, Len(s) - n + 1, Len(s))

RECURSIVE SumSeq(_, _)
\* Sum of original_length over the elements i.. of s.
SumSeq(s, i) == IF i > Len(s) THEN 0 ELSE s[i].original_length + SumSeq(s, i + 1)

RECURSIVE SumFun(_, _)
\* Sum of the values of the function f over the set of keys ks.
SumFun(f, ks) ==
    IF ks = {} THEN 0
    ELSE LET k == CHOOSE x \in ks : TRUE IN f[k] + SumFun(f, ks \ {k})

(***************************************************************************)
(* PacketInfo.  The frames the capture thread can deliver: a DNS query     *)
(* over UDP and an IPv4 packet of a protocol (GRE, 47) the decoder has no  *)
(* name for.                                                               *)
(***************************************************************************)
PacketInputs ==
    { [original_length |-> 80, app_protocol |-> "DNS", ether_type |-> ETHERTYPE_IPV4,
       protocol |-> PROTO_UDP, ip_version |-> 4],
      [original_length |-> 42, app_protocol |-> "", ether_type |-> ETHERTYPE_IPV4,
       protocol |-> 47, ip_version |-> 4] }

\* PacketInfo{}: the value-initialised record that get() and
\* get_selected_packet() return when the index is out of range.
EmptyPacket ==
    [seq |-> 0, original_length |-> 0, app_protocol |-> "", ether_type |-> 0,
     protocol |-> 0, ip_version |-> 0]

\* PacketInfo::protocol_name
protocol_name(pkt) ==
    IF pkt.app_protocol /= "" THEN pkt.app_protocol
    ELSE IF pkt.ether_type = ETHERTYPE_ARP THEN "ARP"
    ELSE IF pkt.protocol = PROTO_ICMP THEN "ICMP"
    ELSE IF pkt.protocol = PROTO_TCP THEN "TCP"
    ELSE IF pkt.protocol = PROTO_UDP THEN "UDP"
    ELSE IF pkt.protocol = PROTO_ICMPV6 THEN "ICMPv6"
    ELSE IF pkt.ip_version = 4 \/ pkt.ip_version = 6
         THEN "IP/" \o ToString(pkt.protocol)
    ELSE "ETH"

\* The keys a std::map<std::string, uint64_t> of the statistics can hold.
ProtoLabels == {"DNS", "HTTP", "TLS", "ARP", "ICMP", "TCP", "UDP", "ICMPv6", "IP/47", "ETH"}

(***************************************************************************)
(* InterfaceStats.  A rate is the quotient delta / elapsed of the code,    *)
(* kept as the pair <<delta * TicksPerSecond, elapsed ticks>>; 0.0 is      *)
(* <<0, 1>>.  A std::map is a function that is 0 on the absent keys.       *)
(***************************************************************************)
ZeroRate == <<0, 1>>

\* InterfaceStats{} followed by last_rate_update = steady_clock::now()
NewStats(t) ==
    [name |-> "",
     packets_received |-> 0, bytes_received |-> 0,
     packets_per_second |-> ZeroRate, bytes_per_second |-> ZeroRate,
     protocol_counts |-> [l \in ProtoLabels |-> 0],
     protocol_bytes |-> [l \in ProtoLabels |-> 0],
     last_rate_update |-> t, last_packets |-> 0, last_bytes |-> 0,
     pps_history |-> <<>>, bps_history |-> <<>>]

\* PacketStore::update_stats_unlocked
update_stats_unlocked(st, pkt) ==
    LET proto == protocol_name(pkt) IN
    [st EXCEPT !.packets_received = @ + 1,
               !.bytes_received = @ + pkt.original_length,
               !.protocol_counts[proto] = @ + 1,
               !.protocol_bytes[proto] = @ + pkt.original_length]

\* The value get_selected_packet() returns in a store holding pk with
\* selection idx.
SelectedPacket(pk, idx) == IF idx < Len(pk) THEN pk[idx + 1] ELSE EmptyPacket

\* The return value of an operation that returns nothing.
Void == [none |-> TRUE]

(***************************************************************************)
(* Initial state: PacketStore::PacketStore().                              *)
(***************************************************************************)
StoreInit ==
    /\ packets_ = <<>>
    /\ stats_ = NewStats(0)
    /\ selected_index_ = 0
    /\ mutex_ = "free"
    /\ cap_pc = "idle"
    /\ now = 0
    /\ npush = 0
    /\ pushed = <<>>
    /\ sel_before = [idx |-> 0, pkt |-> EmptyPacket]
    /\ rate_log = <<>>

(***************************************************************************)
(* The steady clock advances.                                              *)
(***************************************************************************)
Tick ==
    /\ now < MaxTime
    /\ now' = now + 1
    /\ ret' = [op |-> "tick", val |-> Void]
    /\ UNCHANGED <<packets_, stats_, selected_index_, mutex_, cap_pc, npush,
                   pushed, sel_before, rate_log>>
    /\ UNCHANGED notStoreVars

(***************************************************************************)
(* PacketStore::push, on the capture thread.  The three steps run with     *)
(* mutex_ held: the lock_guard is taken in PushBegin and released when     *)
(* PushEvict returns.                                                      *)
(***************************************************************************)
\* lock_guard; packets_.push_back(std::move(packet))
PushBegin ==
    /\ cap_pc = "idle"
    /\ mutex_ = "free"
    /\ npush < MaxPushes
    /\ \E p \in PacketInputs :
         LET pkt == [seq |-> npush + 1] @@ p IN
         /\ packets_' = Append(packets_, pkt)
         /\ pushed' = Append(pushed, pkt)
    /\ mutex_' = "capture"
    /\ cap_pc' = "stats"
    /\ npush' = npush + 1
    /\ sel_before' = [idx |-> selected_index_,
                      pkt |-> SelectedPacket(packets_, selected_index_)]
    /\ ret' = [op |-> "push_begin", val |-> Void]
    /\ UNCHANGED <<stats_, selected_index_, now, rate_log>>
    /\ UNCHANGED notStoreVars

\* update_stats_unlocked(packets_.back())
PushStats ==
    /\ cap_pc = "stats"
    /\ stats_' = update_stats_unlocked(stats_, packets_[Len(packets_)])
    /\ cap_pc' = "evict"
    /\ ret' = [op |-> "push_stats", val |-> Void]
    /\ UNCHANGED <<packets_, selected_index_, mutex_, now, npush, pushed, sel_before,
                   rate_log>>
    /\ UNCHANGED notStoreVars

\* Off by one: the store is let grow one record past its capacity.
StoreFullLate(pk) == Len(pk) > MAX_PACKETS + 1

\* packets_.size() > MAX_PACKETS
StoreFull(pk) == Len(pk) > MAX_PACKETS

\* The selection is left where it was when the front record is evicted.
ShiftSelectedNever(idx) == idx

\* The selection after an eviction: down by one if it is nonzero.
ShiftSelected(idx) == IF idx > 0 THEN idx - 1 ELSE idx

\* if (packets_.size() > MAX_PACKETS) { pop_front(); adjust selected_index_ }
\* and the end of the lock_guard's scope.
PushEvict ==
    /\ cap_pc = "evict"
    /\ IF StoreFull(packets_)
       THEN /\ packets_' = Tail(packets_)
            /\ selected_index_' = ShiftSelected(selected_index_)
       ELSE UNCHANGED <<packets_, selected_index_>>
    /\ mutex_' = "free"
    /\ cap_pc' = "idle"
    /\ ret' = [op |-> "push", val |-> Void]
    /\ UNCHANGED <<stats_, now, npush, pushed, sel_before, rate_log>>
    /\ UNCHANGED notStoreVars

(***************************************************************************)
(* The accessors and mutators the UI thread calls.  Each takes the         *)
(* lock_guard for its whole body, so it runs only when mutex_ is free and  *)
(* leaves it free.                                                         *)
(***************************************************************************)
\* The condition under which a lock_guard on mutex_ can be taken.
CanLock == mutex_ = "free"

\* get_stats without its lock_guard: it can run while push holds the mutex.
GetStatsUnlocked ==
    /\ ret' = [op |-> "get_stats", val |-> stats_]
    /\ UNCHANGED <<packets_, stats_, selected_index_, mutex_, cap_pc, now, npush,
                   pushed, sel_before, rate_log>>
    /\ UNCHANGED notStoreVars

\* PacketStore::get_stats
GetStats ==
    /\ CanLock
    /\ ret' = [op |-> "get_stats", val |-> stats_]
    /\ UNCHANGED <<packets_, stats_, selected_index_, mutex_, cap_pc, now, npush,
                   pushed, sel_before, rate_log>>
    /\ UNCHANGED notStoreVars

\* PacketStore::get_all
GetAll ==
    /\ CanLock
    /\ ret' = [op |-> "get_all", val |-> packets_]
    /\ UNCHANGED <<packets_, stats_, selected_index_, mutex_, cap_pc, now, npush,
                   pushed, sel_before, rate_log>>
    /\ UNCHANGED notStoreVars

\* PacketStore::size
Size ==
    /\ CanLock
    /\ ret' = [op |-> "size", val |-> Len(packets_)]
    /\ UNCHANGED <<packets_, stats_, selected_index_, mutex_, cap_pc, now, npush,
                   pushed, sel_before, rate_log>>
    /\ UNCHANGED notStoreVars

\* PacketStore::get_selected_packet
GetSelectedPacket ==
    /\ CanLock
    /\ ret' = [op |-> "get_selected_packet",
               val |-> SelectedPacket(packets_, selected_index_)]
    /\ UNCHANGED <<packets_, stats_, selected_index_, mutex_, cap_pc, now, npush,
                   pushed, sel_before, rate_log>>
    /\ UNCHANGED notStoreVars

\* Off by one: the index one past the last record is accepted.
index_in_range_inclusive(index, pk) == index <= Len(pk)

\* set_selected_index: index < packets_.size()
index_in_range(index, pk) == index < Len(pk)

\* PacketStore::set_selected_index
SetSelectedIndex ==
    /\ CanLock
    /\ \E index \in 0 .. MAX_PACKETS + 1 :
         /\ selected_index_' = IF index_in_range(index, packets_)
                               THEN index ELSE selected_index_
         /\ ret' = [op |-> "set_selected_index", val |-> index]
    /\ UNCHANGED <<packets_, stats_, mutex_, cap_pc, now, npush, pushed, sel_before,
                   rate_log>>
    /\ UNCHANGED notStoreVars

\* PacketStore::clear
Clear ==
    /\ CanLock
    /\ packets_' = <<>>
    /\ stats_' = NewStats(now)
    /\ selected_index_' = 0
    /\ pushed' = <<>>
    /\ rate_log' = <<>>
    /\ ret' = [op |-> "clear", val |-> Void]
    /\ UNCHANGED <<mutex_, cap_pc, now, npush, sel_before>>
    /\ UNCHANGED notStoreVars

\* The rates are recomputed as soon as any time at all has passed.
RateWindowAnyElapsed(elapsed) == elapsed > 0

\* elapsed >= 1.0, with elapsed in ticks
RateWindowElapsed(elapsed) == elapsed >= TicksPerSecond

\* The history grows without the oldest sample ever being dropped.
PushHistoryNoDrop(h, sample) == Append(h, sample)

\* push_back(sample); if (size() > MAX_HISTORY) pop_front()
PushHistory(h, sample) ==
    LET h1 == Append(h, sample) IN
    IF Len(h1) > MAX_HISTORY THEN Tail(h1) ELSE h1

\* The body of PacketStore::update_rates applied to statistics st at time t.
update_rates(st, t) ==
    LET elapsed == t - st.last_rate_update
        delta_packets == st.packets_received - st.last_packets
        delta_bytes == st.bytes_received - st.last_bytes
        pps == <<delta_packets * TicksPerSecond, elapsed>>
        bps == <<delta_bytes * TicksPerSecond, elapsed>>
    IN  IF RateWindowElapsed(elapsed)
        THEN [st EXCEPT !.packets_per_second = pps,
                        !.bytes_per_second = bps,
                        !.pps_history = PushHistory(@, pps),
                        !.bps_history = PushHistory(@, bps),
                        !.last_packets = st.packets_received,
                        !.last_bytes = st.bytes_received,
                        !.last_rate_update = t]
        ELSE st

\* PacketStore::update_rates
UpdateRates ==
    /\ CanLock
    /\ stats_' = update_rates(stats_, now)
    /\ rate_log' = IF stats_'.last_rate_update = stats_.last_rate_update THEN rate_log
                   ELSE Append(rate_log, <<stats_'.packets_per_second,
                                           stats_'.bytes_per_second>>)
    /\ ret' = [op |-> "update_rates", val |-> Void]
    /\ UNCHANGED <<packets_, selected_index_, mutex_, cap_pc, now, npush, pushed,
                   sel_before>>
    /\ UNCHANGED notStoreVars

(***************************************************************************)
(* The mutexes of the four components as their public functions take them. *)
(* Each function is the sequence of lock and unlock steps its body makes,  *)
(* the functions it calls included; a std::lock_guard is a lock at its     *)
(* declaration and an unlock at the end of its scope.                      *)
(***************************************************************************)
Locks == {"store", "watchlist", "descriptions", "mapper"}

Threads == {"capture", "ui"}

\* A body under one std::lock_guard on mutex l that calls no locking function.
Guarded(l) == << <<"lock", l>>, <<"unlock", l>> >>

\* PacketStore (packet_store.cpp): every public function is Guarded.
StoreCalls ==
    [f \in {"push", "get_recent", "get_all", "get", "size", "clear", "get_stats",
            "update_rates", "set_interface_name", "set_selected_index",
            "get_selected_index", "get_selected_packet"} |-> Guarded("store")]

\* check_and_mark takes the mutex itself and calls check under it.
WatchlistCallsNested ==
    [load |-> Guarded("watchlist"),
     reload |-> Guarded("watchlist"),
     check |-> Guarded("watchlist"),
     check_and_mark |-> <<<<"lock", "watchlist">>>> \o Guarded("watchlist")
                        \o <<<<"unlock", "watchlist">>>>,
     add_alert |-> Guarded("watchlist"),
     get_recent_alerts |-> Guarded("watchlist"),
     clear_alerts |-> Guarded("watchlist"),
     alert_count |-> Guarded("watchlist"),
     get_latest_alert |-> Guarded("watchlist"),
     has_new_alerts |-> <<>>,
     size |-> Guarded("watchlist"),
     set_log_file |-> Guarded("watchlist")]

\* Watchlist (watchlist.cpp): load reads the file and then locks; reload
\* calls load and check_and_mark calls check, neither under a lock of its
\* own; add_alert calls log_alert, which locks nothing; has_new_alerts is
\* one atomic exchange.
WatchlistCalls ==
    [load |-> Guarded("watchlist"),
     reload |-> Guarded("watchlist"),
     check |-> Guarded("watchlist"),
     check_and_mark |-> Guarded("watchlist"),
     add_alert |-> Guarded("watchlist"),
     get_recent_alerts |-> Guarded("watchlist"),
     clear_alerts |-> Guarded("watchlist"),
     alert_count |-> Guarded("watchlist"),
     get_latest_alert |-> Guarded("watchlist"),
     has_new_alerts |-> <<>>,
     size |-> Guarded("watchlist"),
     set_log_file |-> Guarded("watchlist")]

\* DescriptionDatabase (descriptions.cpp): reload calls load.
DescriptionCalls ==
    [load |-> Guarded("descriptions"),
     reload |-> Guarded("descriptions"),
     lookup |-> Guarded("descriptions"),
     size |-> Guarded("descriptions")]

\* ProcessMapper (process_mapper.cpp): lookup_packet calls lookup, and when
\* that finds nothing calls it again; the private functions lock nothing.
MapperCalls ==
    [lookup |-> Guarded("mapper"),
     lookup_packet |-> Guarded("mapper") \o Guarded("mapper"),
     refresh |-> Guarded("mapper"),
     clear |-> Guarded("mapper"),
     cache_size |-> Guarded("mapper"),
     socket_table_size |-> Guarded("mapper")]

\* The public functions by component.
Catalogue ==
    [store |-> StoreCalls, watchlist |-> WatchlistCalls,
     descriptions |-> DescriptionCalls, mapper |-> MapperCalls]

LockInit ==
    /\ lk_owner = [l \in Locks |-> "free"]
    /\ lk_todo = [t \in Threads |-> <<>>]

\* The mutexes thread t holds.
HeldBy(t) == {l \in Locks : lk_owner[l] = t}

\* A thread that is between calls calls a public function of a component.
LockCall ==
    /\ \E t \in Threads, c \in Locks :
         /\ lk_todo[t] = <<>>
         /\ \E f \in DOMAIN Catalogue[c] :
              /\ lk_todo' = [lk_todo EXCEPT ![t] = Catalogue[c][f]]
              /\ ret' = [op |-> "call", thread |-> t, component |-> c, function |-> f]
    /\ UNCHANGED lk_owner
    /\ UNCHANGED notLockVars

\* std::mutex::lock: the thread goes on when the mutex is free.
LockAcquire ==
    /\ \E t \in Threads :
         /\ lk_todo[t] /= <<>>
         /\ Head(lk_todo[t])[1] = "lock"
         /\ lk_owner[Head(lk_todo[t])[2]] = "free"
         /\ lk_owner' = [lk_owner EXCEPT ![Head(lk_todo[t])[2]] = t]
         /\ lk_todo' = [lk_todo EXCEPT ![t] = Tail(@)]
         /\ ret' = [op |-> "lock", thread |-> t, lock |-> Head(lk_todo[t])[2]]
    /\ UNCHANGED notLockVars

\* std::mutex::unlock at the end of the lock_guard's scope
LockRelease ==
    /\ \E t \in Threads :
         /\ lk_todo[t] /= <<>>
         /\ Head(lk_todo[t])[1] = "unlock"
         /\ lk_owner' = [lk_owner EXCEPT ![Head(lk_todo[t])[2]] = "free"]
         /\ lk_todo' = [lk_todo EXCEPT ![t] = Tail(@)]
         /\ ret' = [op |-> "unlock", thread |-> t, lock |-> Head(lk_todo[t])[2]]
    /\ UNCHANGED notLockVars

(***************************************************************************)
(* PacketCapture (capture.hpp, capture.cpp).  The UI thread calls open,    *)
(* start, stop, close and is_running; start creates the capture thread,    *)
(* which runs capture_loop.  pcap_dispatch is libpcap's: it hands at most  *)
(* the requested number of packets to packet_callback and returns their    *)
(* count, PCAP_ERROR on a failure of the source, or PCAP_ERROR_BREAK when  *)
(* the break-loop flag is set and it has handled no packet; it clears the  *)
(* flag only when it returns PCAP_ERROR_BREAK.                             *)
(***************************************************************************)
PCAP_ERROR == 0 - 1
PCAP_ERROR_BREAK == 0 - 2

\* The interfaces open is asked for.
Interfaces == {"eth0", "lo"}

NoCall == [op |-> "none", name |-> ""]

\* PacketCapture::PacketCapture
CaptureInit ==
    /\ handle_ = "null"
    /\ break_loop = FALSE
    /\ interface_name_ = ""
    /\ error_ = ""
    /\ running_ = FALSE
    /\ capture_thread_ = "none"
    /\ loop_pc = "none"
    /\ batch_from = 0
    /\ ui_pc = "idle"
    /\ ui_call = NoCall
    /\ stop_log = [kept |-> <<>>, npush_at |-> 0, cancelled |-> FALSE, joined |-> FALSE]

\* PacketStore::set_interface_name
set_interface_name(st, name) == [st EXCEPT !.name = name]

\* stats_ = InterfaceStats{}; stats_.last_rate_update = now, of PacketStore::clear
clear_stats(st, t) == NewStats(t)

\* stop(): if (!running_.load()) return; running_.store(false);
\* entered from the call in progress (stop itself, close, or open through close).
EnterStop(call) ==
    /\ ui_call' = call
    /\ stop_log' = [kept |-> packets_, npush_at |-> npush, cancelled |-> running_,
                    joined |-> FALSE]
    /\ running_' = FALSE
    /\ ui_pc' = IF running_ THEN "break" ELSE "stopped"

\* PacketCapture::stop called by the UI thread
Stop ==
    /\ ui_pc = "idle"
    /\ EnterStop([op |-> "stop", name |-> ""])
    /\ ret' = [op |-> "stop_begin", val |-> Void]
    /\ UNCHANGED <<handle_, break_loop, interface_name_, error_, capture_thread_,
                   loop_pc, batch_from>>
    /\ UNCHANGED <<storeVars, notCaptureVars>>

\* PacketCapture::close called by the UI thread: stop() first
Close ==
    /\ ui_pc = "idle"
    /\ EnterStop([op |-> "close", name |-> ""])
    /\ ret' = [op |-> "close_begin", val |-> Void]
    /\ UNCHANGED <<handle_, break_loop, interface_name_, error_, capture_thread_,
                   loop_pc, batch_from>>
    /\ UNCHANGED <<storeVars, notCaptureVars>>

\* PacketCapture::open called by the UI thread: if (handle_) close();
Open ==
    /\ ui_pc = "idle"
    /\ \E name \in Interfaces :
         IF handle_ /= "null"
         THEN EnterStop([op |-> "open", name |-> name])
         ELSE /\ ui_call' = [op |-> "open", name |-> name]
              /\ ui_pc' = "open_live"
              /\ UNCHANGED <<running_, stop_log>>
    /\ ret' = [op |-> "open_begin", val |-> Void]
    /\ UNCHANGED <<handle_, break_loop, interface_name_, error_, capture_thread_,
                   loop_pc, batch_from>>
    /\ UNCHANGED <<storeVars, notCaptureVars>>

\* stop(): if (handle_) pcap_breakloop(handle_);
StopBreak ==
    /\ ui_pc = "break"
    /\ break_loop' = (handle_ /= "null" \/ break_loop)
    /\ ui_pc' = "join"
    /\ ret' = [op |-> "stop_break", val |-> Void]
    /\ UNCHANGED <<handle_, interface_name_, error_, running_, capture_thread_,
                   loop_pc, batch_from, ui_call, stop_log>>
    /\ UNCHANGED <<storeVars, notCaptureVars>>

\* join() returns at once, whether or not the thread has finished.
ThreadFinishedAlways == TRUE

\* std::thread::join blocks until the thread has finished capture_loop.
ThreadFinished == loop_pc = "exited"

\* stop(): if (capture_thread_.joinable()) capture_thread_.join();
StopJoin ==
    /\ ui_pc = "join"
    /\ IF capture_thread_ = "joinable"
       THEN /\ ThreadFinished
            /\ capture_thread_' = "none"
            /\ stop_log' = [stop_log EXCEPT !.joined = TRUE]
       ELSE UNCHANGED <<capture_thread_, stop_log>>
    /\ ui_pc' = "stopped"
    /\ ret' = [op |-> "stop_join", val |-> Void]
    /\ UNCHANGED <<handle_, break_loop, interface_name_, error_, running_, loop_pc,
                   batch_from, ui_call>>
    /\ UNCHANGED <<storeVars, notCaptureVars>>

\* stop() returns to the UI thread that called it.
StopReturn ==
    /\ ui_pc = "stopped"
    /\ ui_call.op = "stop"
    /\ ui_pc' = "idle"
    /\ ui_call' = NoCall
    /\ ret' = [op |-> "stop", val |-> Void]
    /\ UNCHANGED <<handle_, break_loop, interface_name_, error_, running_,
                   capture_thread_, loop_pc, batch_from, stop_log>>
    /\ UNCHANGED <<storeVars, notCaptureVars>>

\* close() after its stop(): pcap_close(handle_), handle_ = nullptr,
\* interface_name_.clear(); then close returns, to open if open called it.
CloseHandle ==
    /\ ui_pc = "stopped"
    /\ ui_call.op \in {"close", "open"}
    /\ handle_' = "null"
    /\ break_loop' = FALSE
    /\ interface_name_' = ""
    /\ IF ui_call.op = "close"
       THEN /\ ui_pc' = "idle"
            /\ ui_call' = NoCall
            /\ ret' = [op |-> "close", val |-> Void]
       ELSE /\ ui_pc' = "open_live"
            /\ ret' = [op |-> "open_closed", val |-> Void]
            /\ UNCHANGED ui_call
    /\ UNCHANGED <<error_, running_, capture_thread_, loop_pc, batch_from, stop_log>>
    /\ UNCHANGED <<storeVars, notCaptureVars>>

\* open() from pcap_open_live on: a null handle is an error; otherwise
\* interface_name_ = name, store_.set_interface_name(name), store_.clear(),
\* error_.clear().
OpenLive ==
    /\ ui_pc = "open_live"
    /\ \E opened \in BOOLEAN :
         IF opened
         THEN /\ CanLock
              /\ handle_' = "open"
              /\ interface_name_' = ui_call.name
              /\ stats_' = clear_stats(set_interface_name(stats_, ui_call.name), now)
              /\ packets_' = <<>>
              /\ selected_index_' = 0
              /\ pushed' = <<>>
              /\ rate_log' = <<>>
              /\ error_' = ""
              /\ ret' = [op |-> "open", val |-> TRUE, name |-> ui_call.name]
         ELSE /\ handle_' = "null"
              /\ error_' = "open failed"
              /\ ret' = [op |-> "open", val |-> FALSE, name |-> ui_call.name]
              /\ UNCHANGED <<interface_name_, stats_, packets_, selected_index_,
                             pushed, rate_log>>
    /\ break_loop' = FALSE
    /\ ui_pc' = "idle"
    /\ ui_call' = NoCall
    /\ UNCHANGED <<running_, capture_thread_, loop_pc, batch_from, stop_log>>
    /\ UNCHANGED <<mutex_, cap_pc, now, npush, sel_before>>
    /\ UNCHANGED notCaptureVars

\* PacketCapture::start
Start ==
    /\ ui_pc = "idle"
    /\ IF handle_ = "null" \/ running_
       THEN UNCHANGED <<running_, capture_thread_, loop_pc>>
       ELSE /\ running_' = TRUE
            /\ capture_thread_' = "joinable"
            /\ loop_pc' = "test"
    /\ ret' = [op |-> "start", val |-> Void]
    /\ UNCHANGED <<handle_, break_loop, interface_name_, error_, batch_from, ui_pc,
                   ui_call, stop_log>>
    /\ UNCHANGED <<storeVars, notCaptureVars>>

\* Whether the capture thread is inside the while loop of capture_loop.
InLoop == loop_pc \in {"test", "dispatch"}

\* PacketCapture::is_running
IsRunning ==
    /\ ui_pc = "idle"
    /\ ret' = [op |-> "is_running", val |-> running_, in_loop |-> InLoop,
               error |-> error_]
    /\ UNCHANGED <<captureVars, storeVars, notCaptureVars>>

\* store_.get_stats() called by the UI thread between its other calls
CaptureGetStats ==
    /\ ui_pc = "idle"
    /\ GetStats

\* capture_loop: while (running_.load())
LoopTest ==
    /\ loop_pc = "test"
    /\ loop_pc' = IF running_ THEN "dispatch" ELSE "exited"
    /\ batch_from' = npush
    /\ ret' = [op |-> "loop_test", val |-> running_]
    /\ UNCHANGED <<handle_, break_loop, interface_name_, error_, running_,
                   capture_thread_, ui_pc, ui_call, stop_log>>
    /\ UNCHANGED <<storeVars, notCaptureVars>>

\* packet_callback, called by pcap_dispatch for one more packet of the
\* batch: parse_packet, then store_.push, whose first step this is.
PacketCallback ==
    /\ loop_pc = "dispatch"
    /\ npush - batch_from < DispatchCount
    /\ PushBegin

\* The values pcap_dispatch can return after handling n packets with the
\* break-loop flag as given.
DispatchResults(n, flag) ==
    {PCAP_ERROR} \cup (IF flag /\ n = 0 THEN {PCAP_ERROR_BREAK} ELSE {n})

\* capture_loop: pcap_dispatch returns; error and break leave the loop.
DispatchReturn ==
    /\ loop_pc = "dispatch"
    /\ cap_pc = "idle"
    /\ \E result \in DispatchResults(npush - batch_from, break_loop) :
         /\ error_' = IF result = PCAP_ERROR THEN "pcap error" ELSE error_
         /\ break_loop' = IF result = PCAP_ERROR_BREAK THEN FALSE ELSE break_loop
         /\ loop_pc' = IF result \in {PCAP_ERROR, PCAP_ERROR_BREAK}
                       THEN "exited" ELSE "test"
         /\ ret' = [op |-> "dispatch", val |-> result]
    /\ UNCHANGED <<handle_, interface_name_, running_, capture_thread_, batch_from,
                   ui_pc, ui_call, stop_log>>
    /\ UNCHANGED <<storeVars, notCaptureVars>>

(***************************************************************************)
(* Watchlist: alerts (watchlist.cpp).                                      *)
(***************************************************************************)
\* The alerts the capture thread can raise: what matched, the pattern and
\* the label of the watchlist entry, and the index of the packet.  Alerts
\* are told apart by their timestamps.
AlertInputs ==
    { [matched_value |-> "www.evil.com", pattern |-> "*.evil.com",
       label |-> "Evil domains", packet_index |-> 7] }

\* The path App::init configures, Config::get_config_path("alerts.log").
LogPath == "alerts.log"

\* Alert::format_full: "TIMESTAMP | matched_value | Pattern: pattern | label".
\* The line carries these four fields and not the packet index.
format_full(alert) ==
    <<alert.timestamp, " | ", alert.matched_value, " | Pattern: ", alert.pattern,
      " | ", alert.label>>

\* The file opened without std::ios::app: the line replaces the content.
log_alert_truncating(file, alert, opened) ==
    IF opened THEN <<format_full(alert)>> ELSE file

\* Watchlist::log_alert on a non-empty log_filepath_: the content of the file
\* after std::ofstream file(log_filepath_, std::ios::app), which may fail to
\* open, and file << alert.format_full() << "\n" if it is open.
log_alert(file, alert, opened) ==
    IF opened THEN Append(file, format_full(alert)) ELSE file

\* The oldest alert is kept and the newest dropped.
push_alert_drop_front(al, alert) ==
    LET a1 == <<alert>> \o al IN
    IF Len(a1) > MAX_ALERTS THEN Tail(a1) ELSE a1

\* alerts_.push_front(alert); if (alerts_.size() > MAX_ALERTS) alerts_.pop_back()
push_alert(al, alert) ==
    LET a1 == <<alert>> \o al IN
    IF Len(a1) > MAX_ALERTS THEN SubSeq(a1, 1, Len(a1) - 1) ELSE a1

\* Watchlist::Watchlist() = default
AlertInit ==
    /\ alerts_ = <<>>
    /\ has_new_alerts_ = FALSE
    /\ log_filepath_ = ""
    /\ wl_mutex_ = "free"
    /\ wl_pc = "idle"
    /\ wl_alert = [none |-> TRUE]
    /\ log_file = <<>>
    /\ nalerts = 0
    /\ added = <<>>
    /\ unreported = 0
    /\ log_tried = <<>>

\* Watchlist::add_alert, on the thread that raises the alert, in three steps
\* under one lock_guard: the deque, the flag, the log.
AddAlertBegin ==
    /\ wl_pc = "idle"
    /\ wl_mutex_ = "free"
    /\ nalerts < MaxAlerts
    /\ \E a \in AlertInputs :
         LET alert == [timestamp |-> nalerts + 1] @@ a IN
         /\ alerts_' = push_alert(alerts_, alert)
         /\ added' = Append(added, alert)
         /\ wl_alert' = alert
    /\ wl_mutex_' = "capture"
    /\ wl_pc' = "flag"
    /\ nalerts' = nalerts + 1
    /\ ret' = [op |-> "add_alert_begin", val |-> Void]
    /\ UNCHANGED <<has_new_alerts_, log_filepath_, log_file, unreported, log_tried>>
    /\ UNCHANGED notAlertVars

\* has_new_alerts_.store(true)
AddAlertFlag ==
    /\ wl_pc = "flag"
    /\ has_new_alerts_' = TRUE
    /\ unreported' = unreported + 1
    /\ wl_pc' = "log"
    /\ ret' = [op |-> "add_alert_flag", val |-> Void]
    /\ UNCHANGED <<alerts_, log_filepath_, wl_mutex_, wl_alert, log_file, nalerts,
                   added, log_tried>>
    /\ UNCHANGED notAlertVars

\* if (!log_filepath_.empty()) log_alert(alert); and the end of the
\* lock_guard's scope.  Whether the file opens is the file system's choice.
AddAlertLog ==
    /\ wl_pc = "log"
    /\ IF log_filepath_ /= ""
       THEN \E opened \in BOOLEAN :
              /\ log_file' = log_alert(log_file, wl_alert, opened)
              /\ log_tried' = Append(log_tried, [alert |-> wl_alert,
                                                 configured |-> TRUE,
                                                 opened |-> opened])
       ELSE /\ log_file' = log_file
            /\ log_tried' = Append(log_tried, [alert |-> wl_alert,
                                               configured |-> FALSE,
                                               opened |-> FALSE])
    /\ wl_mutex_' = "free"
    /\ wl_pc' = "idle"
    /\ wl_alert' = [none |-> TRUE]
    /\ ret' = [op |-> "add_alert", val |-> Void]
    /\ UNCHANGED <<alerts_, has_new_alerts_, log_filepath_, nalerts, added, unreported>>
    /\ UNCHANGED notAlertVars

\* The condition under which a lock_guard on Watchlist::mutex_ can be taken.
CanLockWatchlist == wl_mutex_ = "free"

\* The flag is read and left set: load() in place of exchange(false).
flag_after_load(flag) == flag

\* has_new_alerts_.exchange(false): the value the flag holds afterwards.
flag_after_exchange(flag) == FALSE

\* Watchlist::has_new_alerts: an atomic exchange, outside the mutex.  ret
\* also records how many add_alert calls had set the flag since the last call.
HasNewAlerts ==
    /\ ret' = [op |-> "has_new_alerts", val |-> has_new_alerts_, batch |-> unreported]
    /\ has_new_alerts_' = flag_after_exchange(has_new_alerts_)
    /\ unreported' = 0
    /\ UNCHANGED <<alerts_, log_filepath_, wl_mutex_, wl_pc, wl_alert, log_file,
                   nalerts, added, log_tried>>
    /\ UNCHANGED notAlertVars

\* Watchlist::get_recent_alerts
GetRecentAlerts ==
    /\ CanLockWatchlist
    /\ \E count \in 0 .. MAX_ALERTS + 1 :
         LET n == Min(count, Len(alerts_)) IN
         ret' = [op |-> "get_recent_alerts", val |-> SubSeq(alerts_, 1, n),
                 count |-> count]
    /\ UNCHANGED alertVars
    /\ UNCHANGED notAlertVars

\* std::nullopt
Nullopt == [none |-> TRUE]

\* Watchlist::get_latest_alert
GetLatestAlert ==
    /\ CanLockWatchlist
    /\ ret' = [op |-> "get_latest_alert",
               val |-> IF alerts_ = <<>> THEN Nullopt ELSE alerts_[1]]
    /\ UNCHANGED alertVars
    /\ UNCHANGED notAlertVars

\* Watchlist::clear_alerts
ClearAlerts ==
    /\ CanLockWatchlist
    /\ alerts_' = <<>>
    /\ added' = <<>>
    /\ ret' = [op |-> "clear_alerts", val |-> Void]
    /\ UNCHANGED <<has_new_alerts_, log_filepath_, wl_mutex_, wl_pc, wl_alert,
                   log_file, nalerts, unreported, log_tried>>
    /\ UNCHANGED notAlertVars

\* Watchlist::set_log_file
SetLogFile ==
    /\ CanLockWatchlist
    /\ \E filepath \in {"", LogPath} :
         /\ log_filepath_' = filepath
         /\ ret' = [op |-> "set_log_file", val |-> filepath]
    /\ UNCHANGED <<alerts_, has_new_alerts_, wl_mutex_, wl_pc, wl_alert, log_file,
                   nalerts, added, unreported, log_tried>>
    /\ UNCHANGED notAlertVars

(***************************************************************************)
(* Strings inspected character by character.                               *)
(***************************************************************************)
UpperCase == <<"A", "B", "C", "D", "E", "F", "G", "H", "I", "J", "K", "L", "M",
               "N", "O", "P", "Q", "R", "S", "T", "U", "V", "W", "X", "Y", "Z">>
LowerCase == <<"a", "b", "c", "d", "e", "f", "g", "h", "i", "j", "k", "l", "m",
               "n", "o", "p", "q", "r", "s", "t", "u", "v", "w", "x", "y", "z">>
Digits == <<"0", "1", "2", "3", "4", "5", "6", "7", "8", "9">>

\* std::tolower on one character
tolower(c) ==
    IF \E i \in 1 .. Len(UpperCase) : UpperCase[i] = c
    THEN LowerCase[CHOOSE i \in 1 .. Len(UpperCase) : UpperCase[i] = c]
    ELSE c

\* std::transform(s.begin(), s.end(), s.begin(), tolower)
ToLower(s) == [i \in 1 .. Len(s) |-> tolower(s[i])]

IsDigit(c) == \E i \in 1 .. Len(Digits) : Digits[i] = c
DigitValue(c) == (CHOOSE i \in 1 .. Len(Digits) : Digits[i] = c) - 1

\* s.find_first_not_of(chars): the position (from 1), 0 for npos
find_first_not_of(s, chars) ==
    IF \E i \in 1 .. Len(s) : s[i] \notin chars
    THEN CHOOSE i \in 1 .. Len(s) :
            s[i] \notin chars /\ \A j \in 1 .. i - 1 : s[j] \in chars
    ELSE 0

\* s.find_last_not_of(chars): the position (from 1), 0 for npos
find_last_not_of(s, chars) ==
    IF \E i \in 1 .. Len(s) : s[i] \notin chars
    THEN CHOOSE i \in 1 .. Len(s) :
            s[i] \notin chars /\ \A j \in i + 1 .. Len(s) : s[j] \in chars
    ELSE 0

\* s.find(c): the position (from 1), 0 for npos
find(s, c) ==
    IF \E i \in 1 .. Len(s) : s[i] = c
    THEN CHOOSE i \in 1 .. Len(s) : s[i] = c /\ \A j \in 1 .. i - 1 : s[j] /= c
    ELSE 0

\* The trim lambda of from_fields: strip spaces and tabs at both ends.
trim(s) ==
    LET start == find_first_not_of(s, {" ", "\t"})
        end == find_last_not_of(s, {" ", "\t"})
    IN  IF start = 0 THEN <<>> ELSE SubSeq(s, start, end)

(***************************************************************************)
(* Config (config.cpp).                                                    *)
(***************************************************************************)
RECURSIVE parse_fields_from(_, _, _, _, _, _)
\* The loop of Config::parse_fields from position i on, and the final
\* fields.push_back(current).
parse_fields_from(line, delimiter, i, fields, current, escaped) ==
    IF i > Len(line) THEN Append(fields, current)
    ELSE LET c == line[i] IN
         IF escaped
         THEN parse_fields_from(line, delimiter, i + 1, fields, Append(current, c), FALSE)
         ELSE IF c = "\\"
         THEN parse_fields_from(line, delimiter, i + 1, fields, current, TRUE)
         ELSE IF c = delimiter
         THEN parse_fields_from(line, delimiter, i + 1, Append(fields, current), <<>>, FALSE)
         ELSE parse_fields_from(line, delimiter, i + 1, fields, Append(current, c), FALSE)

\* The first character is taken literally, as if a backslash preceded the
\* line.
parse_fields_escaped_start(line, delimiter) ==
    parse_fields_from(line, delimiter, 1, <<>>, <<>>, TRUE)

\* Config::parse_fields
parse_fields(line, delimiter) == parse_fields_from(line, delimiter, 1, <<>>, <<>>, FALSE)

\* The body of the getline loop of Config::read_config_lines: the lines
\* kept for one line of the file, none or one.
read_config_line(line) ==
    LET first_non_space == find_first_not_of(line, {" ", "\t"})
        last_non_space == find_last_not_of(line, {" ", "\t", "\r", "\n"})
    IN  IF line = <<>> THEN <<>>
        ELSE IF first_non_space = 0 THEN <<>>
        ELSE IF line[first_non_space] = "#" THEN <<>>
        ELSE LET trimmed == IF last_non_space /= 0
                            THEN SubSeq(line, first_non_space, last_non_space)
                            ELSE line
             IN  IF trimmed /= <<>> THEN <<trimmed>> ELSE <<>>

RECURSIVE read_config_lines_from(_, _)
read_config_lines_from(file, i) ==
    IF i > Len(file) THEN <<>>
    ELSE read_config_line(file[i]) \o read_config_lines_from(file, i + 1)

\* A file that cannot be opened, and a file holding the given lines.
NoFile == [is_open |-> FALSE, content |-> <<>>]

FileOf(content) == [is_open |-> TRUE, content |-> content]

\* Config::read_config_lines on a file
read_config_lines(file) ==
    IF ~file.is_open THEN <<>> ELSE read_config_lines_from(file.content, 1)

(***************************************************************************)
(* std::regex as the code uses it: regex_match of a whole string, icase.   *)
(* The dialect modelled: literal characters, \c for a literal c, . for any *)
(* character, a postfix *, + or ? on any of these, and the anchors ^ and   *)
(* $.  Groups, classes and alternation are not modelled: the bracket       *)
(* characters occur in the patterns of the model only unmatched, where     *)
(* std::regex throws, and | does not occur.                                *)
(***************************************************************************)
RegexBrackets == {"(", ")", "[", "]", "{", "}"}

RECURSIVE regex_valid_from(_, _, _)
\* Whether pattern p compiles from position i on; atom says whether a
\* quantifier may follow.
regex_valid_from(p, i, atom) ==
    IF i > Len(p) THEN TRUE
    ELSE IF p[i] = "\\" THEN i < Len(p) /\ regex_valid_from(p, i + 2, TRUE)
    ELSE IF p[i] \in {"*", "+", "?"} THEN atom /\ regex_valid_from(p, i + 1, FALSE)
    ELSE IF p[i] \in RegexBrackets THEN FALSE
    ELSE IF p[i] \in {"^", "$"} THEN regex_valid_from(p, i + 1, FALSE)
    ELSE regex_valid_from(p, i + 1, TRUE)

\* Whether std::regex(p, icase | optimize) returns (TRUE) or throws (FALSE).
regex_compiles(p) == regex_valid_from(p, 1, FALSE)

\* The length of the atom of p at position i.
AtomLen(p, i) == IF p[i] = "\\" THEN 2 ELSE 1

\* Whether the atom of p at position i matches the character c, ignoring case.
AtomMatches(p, i, c) ==
    IF p[i] = "\\" THEN tolower(p[i + 1]) = tolower(c)
    ELSE IF p[i] = "." THEN c \notin {"\n", "\r"}
    ELSE tolower(p[i]) = tolower(c)

RECURSIVE regex_match_from(_, _, _, _)
\* Whether p from position i on matches exactly s from position j on.
regex_match_from(p, i, s, j) ==
    IF i > Len(p) THEN j > Len(s)
    ELSE IF p[i] = "^" THEN j = 1 /\ regex_match_from(p, i + 1, s, j)
    ELSE IF p[i] = "$" THEN j = Len(s) + 1 /\ regex_match_from(p, i + 1, s, j)
    ELSE LET n == AtomLen(p, i)
             q == IF i + n <= Len(p) THEN p[i + n] ELSE ""
             one == j <= Len(s) /\ AtomMatches(p, i, s[j])
         IN  IF q = "*"
             THEN \/ regex_match_from(p, i + n + 1, s, j)
                  \/ one /\ regex_match_from(p, i, s, j + 1)
             ELSE IF q = "+"
             THEN one /\ \/ regex_match_from(p, i + n + 1, s, j + 1)
                         \/ regex_match_from(p, i, s, j + 1)
             ELSE IF q = "?"
             THEN \/ regex_match_from(p, i + n + 1, s, j)
                  \/ one /\ regex_match_from(p, i + n + 1, s, j + 1)
             ELSE one /\ regex_match_from(p, i + n, s, j + 1)

\* std::regex_match(s, re) for the compiled pattern re
regex_match(s, re) == regex_match_from(re, 1, s, 1)

\* std::optional<std::regex>
NoRegex == [has |-> FALSE, re |-> <<>>]
SomeRegex(p) == [has |-> TRUE, re |-> p]

\* The characters wildcard_to_regex escapes with a backslash.
WildcardEscaped == {".", "+", "^", "$", "(", ")", "[", "]", "{", "}", "|", "\\"}

RECURSIVE wildcard_body(_, _)
\* The loop of wildcard_to_regex from position i on.
wildcard_body(pattern, i) ==
    IF i > Len(pattern) THEN <<>>
    ELSE LET c == pattern[i]
             out == IF c = "*" THEN <<".", "*">>
                    ELSE IF c = "?" THEN <<".">>
                    ELSE IF c \in WildcardEscaped THEN <<"\\", c>>
                    ELSE <<c>>
         IN  out \o wildcard_body(pattern, i + 1)

\* Watchlist::wildcard_to_regex and DescriptionDatabase::wildcard_to_regex
wildcard_to_regex(pattern) == <<"^">> \o wildcard_body(pattern, 1) \o <<"$">>

(***************************************************************************)
(* IPv4 addresses and integers in text.                                    *)
(***************************************************************************)
RECURSIVE split_from(_, _, _, _)
\* The parts of s between the separators sep, from position i on.
split_from(s, sep, i, current) ==
    IF i > Len(s) THEN <<current>>
    ELSE IF s[i] = sep THEN <<current>> \o split_from(s, sep, i + 1, <<>>)
    ELSE split_from(s, sep, i + 1, Append(current, s[i]))

RECURSIVE decimal_value(_, _)
\* The value of the first n characters of the digit string s.
decimal_value(s, n) ==
    IF n = 0 THEN 0 ELSE decimal_value(s, n - 1) * 10 + DigitValue(s[n])

\* One octet of inet_pton(AF_INET): decimal digits, no leading zero, at most
\* 255; -1 when it is not one.
octet_value(part) ==
    IF part = <<>> \/ Len(part) > 3 THEN -1
    ELSE IF \E i \in 1 .. Len(part) : ~IsDigit(part[i]) THEN -1
    ELSE IF Len(part) > 1 /\ part[1] = "0" THEN -1
    ELSE IF decimal_value(part, Len(part)) > 255 THEN -1
    ELSE decimal_value(part, Len(part))

\* inet_pton(AF_INET, ip) == 1
inet_pton_ok(ip) ==
    LET parts == split_from(ip, ".", 1, <<>>) IN
    Len(parts) = 4 /\ \A i \in 1 .. 4 : octet_value(parts[i]) >= 0

\* A uint32_t is kept as its four bytes, most significant first.
Zero32 == <<0, 0, 0, 0>>
Ones32 == <<255, 255, 255, 255>>

\* ntohl(addr.s_addr) after a successful inet_pton
inet_pton_value(ip) ==
    LET parts == split_from(ip, ".", 1, <<>>) IN
    <<octet_value(parts[1]), octet_value(parts[2]), octet_value(parts[3]),
      octet_value(parts[4])>>

\* WatchlistEntry::parse_ip_addr: the address in host byte order, 0 on failure.
parse_ip_addr(ip) == IF inet_pton_ok(ip) THEN inet_pton_value(ip) ELSE Zero32

RECURSIVE digits_prefix_len(_, _)
\* The number of digits of s from position i on.
digits_prefix_len(s, i) ==
    IF i <= Len(s) /\ IsDigit(s[i]) THEN 1 + digits_prefix_len(s, i + 1) ELSE 0

\* std::stoi(s): leading white space, an optional sign, then as many digits
\* as there are; what follows the digits is ignored.  ok is FALSE where stoi
\* throws (no digits, or a value that does not fit an int).
stoi(s) ==
    LET start == find_first_not_of(s, {" ", "\t", "\n", "\r"})
        signed == start /= 0 /\ s[start] \in {"+", "-"}
        first == IF signed THEN start + 1 ELSE start
        negative == signed /\ s[start] = "-"
        n == IF start = 0 THEN 0 ELSE digits_prefix_len(s, first)
        digits == IF n = 0 THEN <<>> ELSE SubSeq(s, first, first + n - 1)
        nonzero == find_first_not_of(digits, {"0"})
        significant == IF nonzero = 0 THEN <<>> ELSE SubSeq(digits, nonzero, n)
        m == Len(significant)
        high == decimal_value(significant, m - 5)
        low == decimal_value(SubSeq(significant, m - 4, m), 5)
        fits == \/ m < 10
                \/ m = 10 /\ high < 21474
                \/ m = 10 /\ high = 21474 /\ low <= (IF negative THEN 83648 ELSE 83647)
        magnitude == IF m = 10 /\ high = 21474 /\ low = 83648 THEN 0 - 2147483647 - 1
                     ELSE decimal_value(significant, m)
    IN  IF n = 0 \/ ~fits
        THEN [ok |-> FALSE, value |-> 0]
        ELSE [ok |-> TRUE, value |-> IF negative /\ magnitude > 0 THEN 0 - magnitude
                                     ELSE magnitude]

RECURSIVE BitAnd(_, _, _)
\* a & b on the low n bits
BitAnd(a, b, n) ==
    IF n = 0 THEN 0
    ELSE (a % 2) * (b % 2) + 2 * BitAnd(a \div 2, b \div 2, n - 1)

\* a & b on uint32_t
BitAnd32(a, b) == [k \in 1 .. 4 |-> BitAnd(a[k], b[k], 8)]

\* 0xFFFFFFFF << n on uint32_t, for 0 <= n < 32: the low n bits are zero
\* and the bits pushed past bit 31 are lost.
ShiftLeftOnes32(n) ==
    [k \in 1 .. 4 |->
        LET zeros == IF n - 8 * (4 - k) < 0 THEN 0
                     ELSE IF n - 8 * (4 - k) > 8 THEN 8
                     ELSE n - 8 * (4 - k)
        IN  256 - 2 ^ zeros]

(***************************************************************************)
(* WatchlistEntry (watchlist.hpp, watchlist.cpp).                          *)
(***************************************************************************)
\* from_fields, the cidr branch once the address and the prefix are parsed
cidr_entry(entry, ip_addr, prefix) ==
    IF ip_addr = Zero32 THEN Nullopt
    ELSE IF ~prefix.ok THEN Nullopt
    ELSE IF prefix.value < 0 \/ prefix.value > 32 THEN Nullopt
    ELSE [entry EXCEPT !.type = "CIDR",
                       !.ip_addr = ip_addr,
                       !.netmask = IF prefix.value = 0 THEN Zero32
                                   ELSE ShiftLeftOnes32(32 - prefix.value)]

\* from_fields, the cidr branch: the pattern is split at slash_pos
cidr_from_pattern(entry, slash_pos) ==
    IF slash_pos = 0 THEN Nullopt
    ELSE cidr_entry(entry,
                    parse_ip_addr(SubSeq(entry.pattern, 1, slash_pos - 1)),
                    stoi(SubSeq(entry.pattern, slash_pos + 1, Len(entry.pattern))))

\* from_fields, the wildcard and regex branches: std::regex may throw
regex_entry(entry, type, regex_pattern) ==
    IF regex_compiles(regex_pattern)
    THEN [entry EXCEPT !.type = type, !.compiled_regex = SomeRegex(regex_pattern)]
    ELSE Nullopt

\* from_fields, the ip branch
ip_entry(entry, ip_addr) ==
    IF ip_addr = Zero32 THEN Nullopt
    ELSE [entry EXCEPT !.type = "IP", !.ip_addr = ip_addr]

\* from_fields once the three fields are trimmed: dispatch on the type
entry_of_type(type_str, entry) ==
    IF entry.pattern = <<>> THEN Nullopt
    ELSE IF type_str = <<"e", "x", "a", "c", "t">> THEN [entry EXCEPT !.type = "EXACT"]
    ELSE IF type_str = <<"w", "i", "l", "d", "c", "a", "r", "d">>
    THEN regex_entry(entry, "WILDCARD", wildcard_to_regex(entry.pattern))
    ELSE IF type_str = <<"r", "e", "g", "e", "x">> THEN regex_entry(entry, "REGEX", entry.pattern)
    ELSE IF type_str = <<"i", "p">> THEN ip_entry(entry, parse_ip_addr(entry.pattern))
    ELSE IF type_str = <<"c", "i", "d", "r">>
    THEN cidr_from_pattern(entry, find(entry.pattern, "/"))
    ELSE Nullopt

\* WatchlistEntry::from_fields: the entry, or Nullopt
watchlist_from_fields(fields) ==
    IF Len(fields) < 3 THEN Nullopt
    ELSE entry_of_type(ToLower(trim(fields[1])),
                       [type |-> "", pattern |-> trim(fields[2]),
                        label |-> trim(fields[3]), ip_addr |-> Zero32,
                        netmask |-> Ones32, compiled_regex |-> NoRegex])

\* WatchlistEntry::matches_hostname
matches_hostname(entry, hostname) ==
    IF hostname = <<>> THEN FALSE
    ELSE LET lower_host == ToLower(hostname) IN
         IF entry.type = "EXACT" THEN lower_host = ToLower(entry.pattern)
         ELSE IF entry.type \in {"WILDCARD", "REGEX"}
         THEN entry.compiled_regex.has /\ regex_match(lower_host, entry.compiled_regex.re)
         ELSE FALSE

\* WatchlistEntry::matches_ip
matches_ip(entry, ip) ==
    IF ip = <<>> THEN FALSE
    ELSE IF entry.type = "EXACT" THEN ip = entry.pattern
    ELSE IF entry.type = "IP"
    THEN LET check_ip == parse_ip_addr(ip) IN
         check_ip /= Zero32 /\ check_ip = entry.ip_addr
    ELSE IF entry.type = "CIDR"
    THEN LET check_ip == parse_ip_addr(ip) IN
         IF check_ip = Zero32 THEN FALSE
         ELSE BitAnd32(check_ip, entry.netmask) = BitAnd32(entry.ip_addr, entry.netmask)
    ELSE entry.compiled_regex.has /\ regex_match(ip, entry.compiled_regex.re)

\* WatchlistEntry::matches: hostname (if present), source, destination
watchlist_matches(entry, pkt) ==
    \/ pkt.hostname /= <<>> /\ matches_hostname(entry, pkt.hostname)
    \/ pkt.src_ip /= <<>> /\ matches_ip(entry, pkt.src_ip)
    \/ pkt.dst_ip /= <<>> /\ matches_ip(entry, pkt.dst_ip)

\* The scan does not stop at the first match: the last matching entry wins.
watchlist_check_backwards(entries, pkt, i) ==
    LET hits == {k \in 1..Len(entries) : watchlist_matches(entries[k], pkt)} IN
    IF hits = {} THEN Nullopt
    ELSE entries[CHOOSE k \in hits : \A j \in hits : j <= k]

RECURSIVE watchlist_check_from(_, _, _)
\* The loop of Watchlist::check from entry i on.
watchlist_check_from(entries, pkt, i) ==
    IF i > Len(entries) THEN Nullopt
    ELSE IF watchlist_matches(entries[i], pkt) THEN entries[i]
    ELSE watchlist_check_from(entries, pkt, i + 1)

\* Watchlist::check_and_mark: whether it matched, and the packet afterwards
check_and_mark(entries, pkt) ==
    LET match == watchlist_check_from(entries, pkt, 1) IN
    IF match /= Nullopt
    THEN [matched |-> TRUE,
          pkt |-> [pkt EXCEPT !.watchlist_match = TRUE, !.watchlist_label = match.label]]
    ELSE [matched |-> FALSE, pkt |-> pkt]

RECURSIVE watchlist_entries_from(_, _)
\* The loop of Watchlist::load over the lines from i on: the entries pushed
\* back.
watchlist_entries_from(lines, i) ==
    IF i > Len(lines) THEN <<>>
    ELSE (IF watchlist_from_fields(parse_fields(lines[i], ":")) /= Nullopt
          THEN <<watchlist_from_fields(parse_fields(lines[i], ":"))>>
          ELSE <<>>)
             \o watchlist_entries_from(lines, i + 1)

(***************************************************************************)
(* DescriptionEntry, DescriptionDatabase (descriptions.hpp, .cpp).         *)
(***************************************************************************)
\* DescriptionDatabase::detect_match_type
detect_match_type(pattern) ==
    IF pattern = <<>> THEN "EXACT"
    ELSE IF pattern[1] = "~" THEN "REGEX"
    ELSE IF find(pattern, "*") /= 0 \/ find(pattern, "?") /= 0 THEN "WILDCARD"
    ELSE "EXACT"

\* DescriptionEntry::from_fields: the entry, or Nullopt
description_from_fields(fields) ==
    IF Len(fields) < 3 THEN Nullopt
    ELSE LET entry == [type |-> "", pattern |-> trim(fields[1]),
                       category |-> trim(fields[2]), description |-> trim(fields[3]),
                       compiled_regex |-> NoRegex]
             type == detect_match_type(entry.pattern)
         IN  IF entry.pattern = <<>> \/ entry.category = <<>> THEN Nullopt
             ELSE IF type = "WILDCARD"
             THEN LET regex_pattern == wildcard_to_regex(entry.pattern) IN
                  IF regex_compiles(regex_pattern)
                  THEN [entry EXCEPT !.type = type,
                                     !.compiled_regex = SomeRegex(regex_pattern)]
                  ELSE Nullopt
             ELSE IF type = "REGEX"
             THEN LET regex_pattern == SubSeq(entry.pattern, 2, Len(entry.pattern)) IN
                  IF regex_compiles(regex_pattern)
                  THEN [entry EXCEPT !.type = type,
                                     !.compiled_regex = SomeRegex(regex_pattern)]
                  ELSE Nullopt
             ELSE [entry EXCEPT !.type = type]

\* DescriptionEntry::matches
description_matches(entry, hostname) ==
    IF hostname = <<>> THEN FALSE
    ELSE LET lower_host == ToLower(hostname) IN
         IF entry.type = "EXACT" THEN lower_host = ToLower(entry.pattern)
         ELSE entry.compiled_regex.has /\ regex_match(lower_host, entry.compiled_regex.re)

RECURSIVE description_entries_from(_, _)
\* The loop of DescriptionDatabase::load over the lines from i on: the
\* entries pushed back.
description_entries_from(lines, i) ==
    IF i > Len(lines) THEN <<>>
    ELSE (IF description_from_fields(parse_fields(lines[i], ":")) /= Nullopt
          THEN <<description_from_fields(parse_fields(lines[i], ":"))>>
          ELSE <<>>)
             \o description_entries_from(lines, i + 1)

RECURSIVE description_lookup_from(_, _, _)
\* The loop of DescriptionDatabase::lookup from entry i on.
description_lookup_from(entries, hostname, i) ==
    IF i > Len(entries) THEN Nullopt
    ELSE IF description_matches(entries[i], hostname)
    THEN [category |-> entries[i].category, description |-> entries[i].description]
    ELSE description_lookup_from(entries, hostname, i + 1)

\* DescriptionDatabase::lookup
description_lookup(entries, hostname) ==
    IF hostname = <<>> THEN Nullopt ELSE description_lookup_from(entries, hostname, 1)

(***************************************************************************)
(* The configuration files on disk and the traffic the databases are asked *)
(* about.                                                                  *)
(***************************************************************************)
\* A watchlist file: TYPE:PATTERN:LABEL lines, well-formed and malformed.
WatchFile1 ==
    << <<"#", " ", "w", "a", "t", "c", "h", "l", "i", "s", "t">>,
       <<"w", "i", "l", "d", "c", "a", "r", "d", ":", "*", ".", "e", "v", ".", "i", "o", ":", "S", "u", "b">>,
       <<"b", "o", "g", "u", "s", ":", "x", ".", "i", "o", ":", "U", "n", "k", "n", "o", "w", "n", " ", "t", "y", "p", "e">>,
       <<"E", "x", "a", "c", "t", ":", " ", "e", "v", ".", "i", "o", " ", ":", "R", "o", "o", "t">>,
       <<"e", "x", "a", "c", "t", ":", "e", "v", ".", "i", "o">>,
       <<"r", "e", "g", "e", "x", ":", ".", "*", "e", "v", ".", "*", ":", "A", "n", "y">>,
       <<"r", "e", "g", "e", "x", ":", "(", ":", "B", "a", "d", " ", "r", "e", "g", "e", "x">>,
       <<"e", "x", "a", "c", "t", ":", " ", ":", "N", "o", " ", "p", "a", "t", "t", "e", "r", "n">>,
       <<"i", "p", ":", "1", "0", ".", "0", ".", "0", ".", "1", ":", "H", "o", "s", "t">>,
       <<"i", "p", ":", "n", "o", ".", "i", "p", ":", "B", "a", "d", " ", "a", "d", "d", "r", "e", "s", "s">>,
       <<"i", "p", ":", "0", ".", "0", ".", "0", ".", "0", ":", "U", "n", "s", "p", "e", "c", "i", "f", "i", "e", "d">>,
       <<"c", "i", "d", "r", ":", "1", "0", ".", "0", ".", "0", ".", "0", "/", "8", ":", "N", "e", "t">>,
       <<"c", "i", "d", "r", ":", "1", "0", ".", "0", ".", "0", ".", "0", "/", "3", "3", ":", "B", "a", "d", " ", "p", "r", "e", "f", "i", "x">>,
       <<"c", "i", "d", "r", ":", "1", "0", ".", "0", ".", "0", ".", "0", ":", "N", "o", " ", "p", "r", "e", "f", "i", "x">>,
       <<"c", "i", "d", "r", ":", "1", "0", ".", "0", ".", "0", ".", "0", "/", "x", ":", "B", "a", "d", " ", "r", "a", "n", "g", "e">>,
       <<"c", "i", "d", "r", ":", "1", "0", ".", "0", ".", "0", ".", "0", "/", "8", "x", ":", "B", "a", "d", " ", "r", "a", "n", "g", "e">> >>

\* A second watchlist file.
WatchFile2 ==
    << <<"e", "x", "a", "c", "t", ":", "o", "k", ".", "i", "o", ":", "O", "t", "h", "e", "r">>,
       <<"w", "i", "l", "d", "c", "a", "r", "d", ":", "*", ".", "i", "o", ":", "T", "o", "p">> >>

\* The watchlist files by path; "none" does not exist.
WatchFiles ==
    [wl1 |-> FileOf(WatchFile1), wl2 |-> FileOf(WatchFile2), none |-> NoFile]
WatchPaths == {"wl1", "wl2", "none"}

\* A description file: PATTERN:CATEGORY:DESCRIPTION lines.
DescFile1 ==
    << <<"*", ".", "e", "v", ".", "i", "o", ":", "E", "v", "i", "l", ":", "S", "u", "b">>,
       <<"e", "v", ".", "i", "o", ":", "E", "v", "i", "l", ":", "R", "o", "o", "t">>,
       <<"~", ".", "*", "\\", "\\", ".", "i", "o", ":", "T", "L", "D", ":", "A", "n", "y", " ", "i", "o">>,
       <<"w", ".", "e", "v", ".", "i", "o", ":", "L", "a", "t", "e", ":", "S", "h", "a", "d", "o", "w", "e", "d">>,
       <<"x", ".", "i", "o", ":", "N", "o", "D", "e", "s", "c", "r", "i", "p", "t", "i", "o", "n">>,
       <<"~", "(", ":", "B", "r", "o", "k", "e", "n", ":", "B", "a", "d", " ", "r", "e", "g", "e", "x">> >>

\* A second description file.
DescFile2 ==
    << <<"o", "k", ".", "i", "o", ":", "F", "i", "n", "e", ":", "O", "k">> >>

\* The description files by path; "none" does not exist.
DescFiles ==
    [db1 |-> FileOf(DescFile1), db2 |-> FileOf(DescFile2), none |-> NoFile]
DescPaths == {"db1", "db2", "none"}

\* The host names the decoder can extract.
Hostnames == { <<>>, <<"w", ".", "e", "v", ".", "i", "o">>, <<"E", "V", ".", "i", "o">>, <<"o", "k", ".", "i", "o">>, <<"a", ".", "c", "o", "m">> }

\* The decoded packets handed to the watchlist: host name and addresses.
MatchPackets ==
    { [hostname |-> <<"w", ".", "e", "v", ".", "i", "o">>, src_ip |-> <<"1", "0", ".", "0", ".", "0", ".", "1">>, dst_ip |-> <<"8", ".", "8", ".", "8", ".", "8">>,
       watchlist_match |-> FALSE, watchlist_label |-> <<>>],
      [hostname |-> <<"E", "V", ".", "i", "o">>, src_ip |-> <<"9", ".", "9", ".", "9", ".", "9">>, dst_ip |-> <<"8", ".", "8", ".", "8", ".", "8">>,
       watchlist_match |-> FALSE, watchlist_label |-> <<>>],
      [hostname |-> <<>>, src_ip |-> <<"8", ".", "8", ".", "8", ".", "8">>, dst_ip |-> <<"1", "0", ".", "0", ".", "0", ".", "1">>,
       watchlist_match |-> FALSE, watchlist_label |-> <<>>],
      [hostname |-> <<"a", ".", "c", "o", "m">>, src_ip |-> <<"9", ".", "9", ".", "9", ".", "9">>, dst_ip |-> <<"8", ".", "8", ".", "8", ".", "8">>,
       watchlist_match |-> FALSE, watchlist_label |-> <<>>] }

(***************************************************************************)
(* ProcessMapper (process_mapper.hpp, process_mapper.cpp), the Linux       *)
(* build.  The three maps are sets of <<key, value>> pairs with one pair   *)
(* per key.  The cached_at members of SocketEntry and ProcessInfo are      *)
(* written and never read, and are left out.  Every public function runs   *)
(* under ProcessMapper::mutex_ from its first statement to its last, so    *)
(* each is one step.                                                       *)
(***************************************************************************)
\* m.find(k) != m.end(), m.find(k)->second, and m[k] = v
MapHas(m, k) == \E p \in m : p[1] = k

MapGet(m, k) == (CHOOSE p \in m : p[1] = k)[2]

MapPut(m, k, v) == {p \in m : p[1] /= k} \cup {<<k, v>>}

\* A directory that cannot be opened, and one with the given entries.
NoDir == [is_open |-> FALSE, entries |-> <<>>]

DirOf(entries) == [is_open |-> TRUE, entries |-> entries]

\* A machine with no sockets and no readable process.
EmptyProcFs == [tcp |-> FileOf(<<>>), udp |-> FileOf(<<>>), proc |-> DirOf(<<>>)]

\* ProcessMapper() = default: empty maps, last_socket_refresh_ at the epoch.
MapperInit ==
    /\ socket_table_ = {}
    /\ inode_to_process_ = {}
    /\ process_name_cache_ = {}
    /\ last_socket_refresh_ = 0
    /\ steady_now = 1
    /\ proc_fs = EmptyProcFs
    /\ pm_log = [populated |-> FALSE, refresh_at |-> 0]

\* The hexadecimal digits std::stoull(_, nullptr, 16) accepts, with their
\* values.
HexDigits ==
    [c \in {"0", "1", "2", "3", "4", "5", "6", "7", "8", "9",
            "a", "b", "c", "d", "e", "f", "A", "B", "C", "D", "E", "F"} |->
        CASE c = "0" -> 0 [] c = "1" -> 1 [] c = "2" -> 2 [] c = "3" -> 3
          [] c = "4" -> 4 [] c = "5" -> 5 [] c = "6" -> 6 [] c = "7" -> 7
          [] c = "8" -> 8 [] c = "9" -> 9
          [] c \in {"a", "A"} -> 10 [] c \in {"b", "B"} -> 11
          [] c \in {"c", "C"} -> 12 [] c \in {"d", "D"} -> 13
          [] c \in {"e", "E"} -> 14 [] c \in {"f", "F"} -> 15]

RECURSIVE hex_prefix(_, _)
\* The values of the hexadecimal digits s starts with, from position i on.
hex_prefix(s, i) ==
    IF i <= Len(s) /\ s[i] \in DOMAIN HexDigits
    THEN <<HexDigits[s[i]]>> \o hex_prefix(s, i + 1) ELSE <<>>

\* std::stoull on a text whose leading hexadecimal digits have the values
\* digits: the uint64_t as sixteen hexadecimal digits, most significant
\* first; 0 where stoull throws (no digit, or more than 64 bits).
stoull_hex(digits) ==
    IF digits = <<>> \/ \E i \in 1 .. Len(digits) - 16 : digits[i] /= 0
    THEN [k \in 1 .. 16 |-> 0]
    ELSE [k \in 1 .. 16 |->
             IF Len(digits) - 16 + k >= 1 THEN digits[Len(digits) - 16 + k] ELSE 0]

\* ProcessMapper::parse_hex
parse_hex(hex) == stoull_hex(hex_prefix(hex, 1))

\* static_cast<uint16_t> of a uint64_t
uint16_of(d) == ((d[13] * 16 + d[14]) * 16 + d[15]) * 16 + d[16]

\* static_cast<uint32_t> of a uint64_t: four bytes, most significant first.
uint32_of(d) ==
    <<d[9] * 16 + d[10], d[11] * 16 + d[12], d[13] * 16 + d[14], d[15] * 16 + d[16]>>

\* ntohl on a little-endian host
ntohl(b) == <<b[4], b[3], b[2], b[1]>>

\* ProcessMapper::parse_proc_ip
parse_proc_ip(hex_ip) == ntohl(uint32_of(parse_hex(hex_ip)))

\* The key of a row of /proc/net/tcp or udp whose two addresses hold a colon.
socket_key(local_addr, local_colon, remote_addr, remote_colon, protocol) ==
    [local_addr |-> parse_proc_ip(SubSeq(local_addr, 1, local_colon - 1)),
     local_port |-> uint16_of(parse_hex(SubSeq(local_addr, local_colon + 1, Len(local_addr)))),
     remote_addr |-> parse_proc_ip(SubSeq(remote_addr, 1, remote_colon - 1)),
     remote_port |-> uint16_of(parse_hex(SubSeq(remote_addr, remote_colon + 1, Len(remote_addr)))),
     protocol |-> protocol]

RECURSIVE socket_rows_from(_, _, _, _)
\* The while loop of refresh_socket_table over the lines after the header;
\* a row is the tokens the loop extracts: local_address, rem_address, inode.
socket_rows_from(table, rows, i, protocol) ==
    IF i > Len(rows) THEN table
    ELSE IF \/ rows[i].inode = 0
            \/ find(rows[i].local_address, ":") = 0
            \/ find(rows[i].rem_address, ":") = 0
    THEN socket_rows_from(table, rows, i + 1, protocol)
    ELSE socket_rows_from(
             MapPut(table,
                    socket_key(rows[i].local_address, find(rows[i].local_address, ":"),
                               rows[i].rem_address, find(rows[i].rem_address, ":"),
                               protocol),
                    rows[i].inode),
             rows, i + 1, protocol)

\* ProcessMapper::refresh_socket_table(protocol) on the members s: the first
\* line is the header; the rows are stored into the table as it stands.
refresh_socket_table(s, file, protocol) ==
    IF ~file.is_open THEN s
    ELSE [s EXCEPT !.socket_table = socket_rows_from(@, file.content, 2, protocol)]

\* ProcessMapper::get_process_name: the cached name, or the first line of
\* /proc/PID/comm, which is then cached; "" when the file cannot be opened.
get_process_name(cache, pid, comm) ==
    IF MapHas(cache, pid) THEN [name |-> MapGet(cache, pid), cache |-> cache]
    ELSE IF ~comm.is_open THEN [name |-> <<>>, cache |-> cache]
    ELSE [name |-> (IF comm.content = <<>> THEN <<>> ELSE comm.content[1]),
          cache |-> MapPut(cache, pid,
                           IF comm.content = <<>> THEN <<>> ELSE comm.content[1])]

\* std::stoull(inode_str) of a text without leading white space or sign, 0
\* where it throws.
stoull_inode(inode_str, digits) ==
    IF digits = 0 THEN 0 ELSE decimal_value(inode_str, digits)

\* The inode of a link target socket:[inode], 0 for any other target; the
\* table holds no inode 0, so a target socket:[0] is skipped as well.
socket_inode(target) ==
    IF Len(target) < 8 \/ SubSeq(target, 1, 8) /= <<"s", "o", "c", "k", "e", "t", ":", "[">>
    THEN 0
    ELSE IF find(target, "]") = 0 THEN 0
    ELSE stoull_inode(SubSeq(target, 9, find(target, "]") - 1),
                      digits_prefix_len(SubSeq(target, 9, find(target, "]") - 1), 1))

\* The end of the inner loop's body: the descriptor names socket inode; it
\* is stored if the socket table holds that inode.
fd_store(s, pid, comm, inode) ==
    IF inode = 0 \/ ~(\E p \in s.socket_table : p[2] = inode) THEN s
    ELSE [s EXCEPT
             !.inode_to_process =
                 MapPut(@, inode,
                        [pid |-> pid,
                         name |-> get_process_name(s.process_name_cache, pid, comm).name]),
             !.process_name_cache = get_process_name(@, pid, comm).cache]

RECURSIVE fd_entries_from(_, _, _, _, _)
\* The inner while loop of refresh_inode_mapping over /proc/PID/fd.
fd_entries_from(s, pid, comm, links, i) ==
    IF i > Len(links) THEN s
    ELSE IF links[i].d_type /= "DT_LNK" \/ links[i].target = <<>>
    THEN fd_entries_from(s, pid, comm, links, i + 1)
    ELSE fd_entries_from(fd_store(s, pid, comm, socket_inode(links[i].target)),
                         pid, comm, links, i + 1)

\* strtol(d_name, &end, 10) with *end == '\0' and pid > 0: the pid, else 0.
pid_of(d_name) ==
    IF d_name = <<>> \/ \E i \in 1 .. Len(d_name) : ~IsDigit(d_name[i]) THEN 0
    ELSE decimal_value(d_name, Len(d_name))

RECURSIVE proc_entries_from(_, _, _)
\* The outer while loop of refresh_inode_mapping over /proc.
proc_entries_from(s, entries, i) ==
    IF i > Len(entries) THEN s
    ELSE IF \/ entries[i].d_type /= "DT_DIR"
            \/ pid_of(entries[i].d_name) <= 0
            \/ ~entries[i].fd.is_open
    THEN proc_entries_from(s, entries, i + 1)
    ELSE proc_entries_from(
             fd_entries_from(s, pid_of(entries[i].d_name), entries[i].comm,
                             entries[i].fd.entries, 1),
             entries, i + 1)

\* ProcessMapper::refresh_inode_mapping on the members s.
refresh_inode_mapping(s, proc) ==
    IF ~proc.is_open THEN s ELSE proc_entries_from(s, proc.entries, 1)

(***************************************************************************)
(* Watchlist and DescriptionDatabase: entries (watchlist.cpp,              *)
(* descriptions.cpp).                                                      *)
(***************************************************************************)
\* Watchlist() = default; DescriptionDatabase() = default
MatchInit ==
    /\ wl_entries_ = <<>>
    /\ wl_filepath_ = ""
    /\ wl_loaded_ = FALSE
    /\ db_entries_ = <<>>
    /\ db_filepath_ = ""
    /\ db_loaded_ = FALSE

\* The body of Watchlist::load(filepath); reload calls it with filepath_
\* and returns whether the count is >= 0.
WatchlistLoadFrom(filepath, is_reload) ==
    /\ CanLockWatchlist
    /\ wl_entries_' =
           watchlist_entries_from(read_config_lines(WatchFiles[filepath]), 1)
    /\ wl_filepath_' = filepath
    /\ wl_loaded_' = TRUE
    /\ ret' = IF is_reload
              THEN [op |-> "reload", val |-> Len(wl_entries_') >= 0,
                    filepath |-> filepath]
              ELSE [op |-> "load", val |-> Len(wl_entries_'), filepath |-> filepath]
    /\ UNCHANGED <<db_entries_, db_filepath_, db_loaded_>>
    /\ UNCHANGED notMatchVars

\* Watchlist::load
WatchlistLoad == \E filepath \in WatchPaths : WatchlistLoadFrom(filepath, FALSE)

\* Watchlist::reload
WatchlistReload ==
    IF wl_filepath_ = ""
    THEN /\ ret' = [op |-> "reload", val |-> FALSE, filepath |-> ""]
         /\ UNCHANGED matchVars
         /\ UNCHANGED notMatchVars
    ELSE WatchlistLoadFrom(wl_filepath_, TRUE)

\* Watchlist::size
WatchlistSize ==
    /\ CanLockWatchlist
    /\ ret' = [op |-> "size", val |-> Len(wl_entries_)]
    /\ UNCHANGED matchVars
    /\ UNCHANGED notMatchVars

\* Watchlist::check
WatchlistCheck ==
    /\ CanLockWatchlist
    /\ \E pkt \in MatchPackets :
         ret' = [op |-> "check", val |-> watchlist_check_from(wl_entries_, pkt, 1),
                 pkt |-> pkt]
    /\ UNCHANGED matchVars
    /\ UNCHANGED notMatchVars

\* Watchlist::check_and_mark
WatchlistCheckAndMark ==
    /\ CanLockWatchlist
    /\ \E pkt \in MatchPackets :
         ret' = [op |-> "check_and_mark", val |-> check_and_mark(wl_entries_, pkt),
                 pkt |-> pkt]
    /\ UNCHANGED matchVars
    /\ UNCHANGED notMatchVars

\* DescriptionDatabase::load
DescriptionLoad ==
    /\ \E filepath \in DescPaths :
         LET lines == read_config_lines(DescFiles[filepath]) IN
         /\ db_entries_' = description_entries_from(lines, 1)
         /\ db_filepath_' = filepath
         /\ ret' = [op |-> "db_load", val |-> Len(db_entries_'), filepath |-> filepath]
    /\ db_loaded_' = TRUE
    /\ UNCHANGED <<wl_entries_, wl_filepath_, wl_loaded_>>
    /\ UNCHANGED notMatchVars

\* DescriptionDatabase::lookup
DescriptionLookup ==
    /\ \E hostname \in Hostnames :
         ret' = [op |-> "lookup", val |-> description_lookup(db_entries_, hostname),
                 hostname |-> hostname]
    /\ UNCHANGED matchVars
    /\ UNCHANGED notMatchVars

(***************************************************************************)
(* WatchlistEntry::matches_ip asked directly, on network-range entries     *)
(* made by from_fields from address/prefix for every prefix 0..32.         *)
(***************************************************************************)
\* The decimal digits of n, 0 <= n <= 99, as the file would spell them.
DecimalOf(n) ==
    IF n < 10 THEN <<Digits[n + 1]>>
    ELSE <<Digits[(n \div 10) + 1], Digits[(n % 10) + 1]>>

\* The network addresses of the range entries.
CidrAddresses == { <<"1", "0", ".", "0", ".", "0", ".", "0">>, <<"1", "9", "2", ".", "1", "6", "8", ".", "1", ".", "1">>, <<"0", ".", "0", ".", "1", ".", "0">> }

\* The candidate addresses, as PacketInfo::src_ip / dst_ip spell them.
CandidateIps ==
    { <<"1", "0", ".", "0", ".", "0", ".", "1">>, <<"1", "0", ".", "2", "5", "5", ".", "2", "5", "5", ".", "2", "5", "5">>, <<"1", "1", ".", "0", ".", "0", ".", "1">>, <<"1", "9", "2", ".", "1", "6", "8", ".", "1", ".", "1">>,
      <<"0", ".", "0", ".", "0", ".", "0">> }

\* The fields of the line cidr:address/prefix:Range
CidrFields(address, prefix) ==
    << <<"c", "i", "d", "r">>, address \o <<"/">> \o DecimalOf(prefix), <<"R", "a", "n", "g", "e">> >>

\* entry.matches_ip(ip) on the entry from_fields made of address/prefix
MatchesIpOf(address, prefix, ip) ==
    /\ watchlist_from_fields(CidrFields(address, prefix)) /= Nullopt
    /\ ret' = [op |-> "matches_ip",
               val |-> matches_ip(watchlist_from_fields(CidrFields(address, prefix)), ip),
               ip |-> ip, address |-> address, prefix |-> prefix]
    /\ UNCHANGED notRetVars

\* WatchlistEntry::from_fields, then WatchlistEntry::matches_ip
MatchesIp ==
    \E address \in CidrAddresses, prefix \in 0 .. 32, ip \in CandidateIps :
        MatchesIpOf(address, prefix, ip)

(***************************************************************************)
(* Wildcard entries *.D of both databases asked about host names.          *)
(***************************************************************************)
\* The domains D of the wildcard patterns *.D
WildcardDomains == { <<"e", "v", ".", "i", "o">>, <<"E", "x", "a", "m", "p", "l", "e", ".", "C", "O", "M">>, <<"d">> }

\* What can stand before .D in a host name; <<>> is the empty prefix.
HostPrefixes == { <<>>, <<"w", "w", "w">>, <<"a", ".", "b">>, <<"W">> }

\* The host names asked about: a prefix and .D, bare D, D followed by
\* another domain, and D glued to a prefix without the dot.
WildcardHosts ==
    UNION { { prefix \o <<".">> \o D : prefix \in HostPrefixes }
                \cup { D, D \o <<".", "e", "v", "i", "l", ".", "c", "o", "m">>, <<"x">> \o D, ToLower(D) }
            : D \in WildcardDomains }

\* entry.matches_hostname(hostname) on the watchlist entry of wildcard:*.D
WildcardWatchOf(fields, D, hostname) ==
    /\ watchlist_from_fields(fields) /= Nullopt
    /\ ret' = [op |-> "wildcard_watch",
               val |-> matches_hostname(watchlist_from_fields(fields), hostname),
               domain |-> D, hostname |-> hostname]
    /\ UNCHANGED notRetVars

\* WatchlistEntry::from_fields of a wildcard line, then matches_hostname
WildcardWatch ==
    \E D \in WildcardDomains, hostname \in WildcardHosts :
        WildcardWatchOf(
            << <<"w", "i", "l", "d", "c", "a", "r", "d">>, <<"*", ".">> \o D, <<"L", "a", "b", "e", "l">> >>,
            D, hostname)

\* entry.matches(hostname) on the description entry of *.D
WildcardDescOf(fields, D, hostname) ==
    /\ description_from_fields(fields) /= Nullopt
    /\ ret' = [op |-> "wildcard_desc",
               val |-> description_matches(description_from_fields(fields), hostname),
               domain |-> D, hostname |-> hostname]
    /\ UNCHANGED notRetVars

\* DescriptionEntry::from_fields of a wildcard line, then matches
WildcardDesc ==
    \E D \in WildcardDomains, hostname \in WildcardHosts :
        WildcardDescOf(
            << <<"*", ".">> \o D, <<"C", "a", "t", "e", "g", "o", "r", "y">>, <<"T", "e", "x", "t">> >>,
            D, hostname)

(***************************************************************************)
(* parse_dns_name (packet.cpp).  A buffer is a sequence of bytes 0..255;   *)
(* data[i] of the code is data[i + 1] here.  The record threaded through   *)
(* the loop holds the locals of the function (name, pos, jumped,           *)
(* jump_count), the caller's offset, and a history of what the run did:    *)
(* the indices it read, how often it assigned offset, where it met the     *)
(* first pointer it followed, and how many iterations it made.             *)
(***************************************************************************)
\* data[i]; no run of the functions below asks for an index outside the
\* buffer (the indices asked for are recorded in reads), where 0 stands for
\* the byte.
ReadByte(data, i) == IF i < Len(data) THEN data[i + 1] ELSE 0

\* The bytes data[from .. from + n - 1]
ReadBytes(data, from, n) == [k \in 1 .. n |-> ReadByte(data, from + k - 1)]

\* (label_len & 0xC0) == 0xC0 on a uint8_t
IsCompressionPointer(label_len) == label_len >= 192

\* ((label_len & 0x3F) << 8) | data[pos + 1]
PointerTarget(label_len, low) == (label_len - 192) * 256 + low

\* The offset is moved at every pointer followed.
OffsetAtEveryJump(offset, jumped, pos) == pos + 2

\* if (!jumped) offset = pos + 2
OffsetAtJump(offset, jumped, pos) == IF ~jumped THEN pos + 2 ELSE offset

\* The label is taken to fit when its last byte is the byte after the buffer.
LabelFitsLate(pos, label_len, len) == ~(pos + label_len > len)

\* the negation of: if (pos + 1 + label_len > len) break
LabelFits(pos, label_len, len) == ~(pos + 1 + label_len > len)

RECURSIVE dns_name_loop(_, _, _)
RECURSIVE dns_name_step(_, _, _, _)
\* One iteration of the loop of parse_dns_name, label_len = data[pos] read.
dns_name_step(data, len, s, label_len) ==
    IF label_len = 0
    THEN [s EXCEPT !.offset = IF ~s.jumped THEN s.pos + 1 ELSE @,
                   !.offset_writes = IF ~s.jumped THEN @ + 1 ELSE @]
    ELSE IF IsCompressionPointer(label_len)
    THEN IF s.pos + 1 >= len THEN s
         ELSE dns_name_loop(data, len,
                  [s EXCEPT !.reads = @ \cup {s.pos + 1},
                            !.offset = OffsetAtJump(@, s.jumped, s.pos),
                            !.offset_writes = IF ~s.jumped THEN @ + 1 ELSE @,
                            !.first_pointer = IF ~s.jumped THEN s.pos ELSE @,
                            !.pos = PointerTarget(label_len,
                                                  ReadByte(data, s.pos + 1)),
                            !.jumped = TRUE,
                            !.jump_count = @ + 1])
    ELSE IF ~LabelFits(s.pos, label_len, len) THEN s
    ELSE dns_name_loop(data, len,
             [s EXCEPT !.reads = @ \cup (s.pos + 1 .. s.pos + label_len),
                       !.name = (IF @ /= <<>> THEN @ \o <<46>> ELSE @)
                                    \o ReadBytes(data, s.pos + 1, label_len),
                       !.pos = @ + label_len + 1])

\* while (pos < len && jump_count < max_jumps)
dns_name_loop(data, len, s) ==
    IF s.pos < len /\ s.jump_count < max_jumps
    THEN dns_name_step(data, len,
                       [s EXCEPT !.reads = @ \cup {s.pos}, !.steps = @ + 1],
                       ReadByte(data, s.pos))
    ELSE s

\* After the loop: if (!jumped) offset = pos; return name
dns_name_end(s) ==
    [s EXCEPT !.offset = IF ~s.jumped THEN s.pos ELSE @,
              !.offset_writes = IF ~s.jumped THEN @ + 1 ELSE @]

\* parse_dns_name(data, len, offset): the name returned, the offset left in
\* the caller's variable, and the history of the run
parse_dns_name(data, len, offset) ==
    dns_name_end(dns_name_loop(data, len,
        [name |-> <<>>, pos |-> offset, jumped |-> FALSE, jump_count |-> 0,
         offset |-> offset, reads |-> {}, offset_writes |-> 0,
         first_pointer |-> 0, steps |-> 0]))

\* The bytes the buffers are made of: the terminator, label lengths 1 and
\* 2, the letter a, and the pointer byte 0xC0.
DnsBytes == {0, 1, 2, 97, 192}

\* Every buffer of at most MaxDnsLen such bytes.
DnsBuffers == UNION { [1 .. n -> DnsBytes] : n \in 0 .. MaxDnsLen }

\* The caller holds a buffer and a start offset inside it or at its end.
DnsInit ==
    /\ StoreInit /\ AlertInit /\ MatchInit /\ MapperInit /\ CaptureInit /\ LockInit
    /\ ret \in { [op |-> "dns_input", data |-> data, offset |-> offset] :
                 data \in DnsBuffers, offset \in 0 .. MaxDnsLen }
    /\ ret.offset <= Len(ret.data)

\* name = parse_dns_name(data, len, offset)
ParseDnsName ==
    /\ ret.op = "dns_input"
    /\ ret' = [op |-> "parse_dns_name", data |-> ret.data, offset |-> ret.offset,
               val |-> parse_dns_name(ret.data, Len(ret.data), ret.offset)]
    /\ UNCHANGED notRetVars

(***************************************************************************)
(* The application parsers of packet.cpp.  Each gets the record, the       *)
(* payload bytes and their count; data[i] of the code is data[i + 1] here. *)
(* read_end is history: one more than the highest index of data the        *)
(* parser has read so far.                                                 *)
(***************************************************************************)
\* The record after data[from .. to - 1] has been read.
Saw(info, to) == [info EXCEPT !.read_end = IF to > @ THEN to ELSE @]

\* (data[i] << 8) | data[i + 1]
U16(data, i) == ReadByte(data, i) * 256 + ReadByte(data, i + 1)

\* The extensions block is not clamped to the bytes present.
ExtensionsEndDeclared(pos, extensions_len, len) == pos + extensions_len

\* extensions_end = pos + extensions_len; if (extensions_end > len)
\* extensions_end = len
ExtensionsEnd(pos, extensions_len, len) ==
    IF pos + extensions_len > len THEN len ELSE pos + extensions_len

\* The SNI branch of the extension loop: the extension at pos - 4 has type
\* 0 and ext_len >= 5; sni_pos is pos + 2.  Returns the record and whether
\* the function returned (TRUE) or broke out of the loop or fell through.
tls_sni(info, data, pos, ext_len, sni_pos) ==
    IF sni_pos + 3 > pos + ext_len THEN [info |-> info, done |-> TRUE]
    ELSE IF ReadByte(data, sni_pos) = 0
            /\ sni_pos + 3 + U16(data, sni_pos + 1) <= pos + ext_len
    THEN [info |-> [Saw(info, sni_pos + 3 + U16(data, sni_pos + 1))
                       EXCEPT !.hostname = ReadBytes(data, sni_pos + 3,
                                                     U16(data, sni_pos + 1)),
                              !.app_protocol = "TLS",
                              !.app_info = <<67, 108, 105, 101, 110, 116, 32, 72, 101, 108, 108, 111>>],
          done |-> TRUE]
    ELSE [info |-> Saw(info, sni_pos + 3), done |-> FALSE]

RECURSIVE tls_extensions(_, _, _, _)
RECURSIVE tls_after_sni(_, _, _, _)
\* while (pos + 4 <= extensions_end) { ... }
tls_extensions(info, data, pos, extensions_end) ==
    IF ~(pos + 4 <= extensions_end) THEN info
    ELSE IF pos + 4 + U16(data, pos + 2) > extensions_end THEN Saw(info, pos + 4)
    ELSE IF U16(data, pos) = 0 /\ U16(data, pos + 2) >= 5
    THEN tls_after_sni(tls_sni(Saw(info, pos + 4), data, pos + 4,
                               U16(data, pos + 2), pos + 6),
                       data, pos + 4 + U16(data, pos + 2), extensions_end)
    ELSE tls_extensions(Saw(info, pos + 4), data, pos + 4 + U16(data, pos + 2),
                        extensions_end)

\* After the SNI branch: return or break, or pos += ext_len and loop.
tls_after_sni(sni, data, next_pos, extensions_end) ==
    IF sni.done THEN sni.info
    ELSE tls_extensions(sni.info, data, next_pos, extensions_end)

\* From the extensions length on; pos is where the length stands.
tls_extensions_block(info, data, len, pos) ==
    IF pos + 2 > len THEN info
    ELSE tls_extensions(Saw(info, pos + 2), data, pos + 2,
                        ExtensionsEnd(pos + 2, U16(data, pos), len))

\* From the compression methods on; pos is where their length stands.
tls_compression(info, data, len, pos) ==
    IF pos + 1 > len THEN info
    ELSE tls_extensions_block(Saw(info, pos + 1), data, len,
                              pos + 1 + ReadByte(data, pos))

\* From the cipher suites on; pos is where their length stands.
tls_cipher_suites(info, data, len, pos) ==
    IF pos + 2 > len THEN info
    ELSE tls_compression(Saw(info, pos + 2), data, len,
                         pos + 2 + U16(data, pos))

\* parse_tls_client_hello(info, data, len)
parse_tls_client_hello(info, data, len) ==
    IF len < 5 THEN info
    ELSE IF ReadByte(data, 0) /= 22 THEN Saw(info, 1)
    ELSE IF 5 + 4 > len THEN Saw(info, 1)
    ELSE IF ReadByte(data, 5) /= 1 THEN Saw(info, 6)
    ELSE IF 9 + 35 > len THEN Saw(info, 6)
    ELSE tls_cipher_suites(Saw(info, 44), data, len, 44 + ReadByte(data, 43))

\* The bytes read by parse_dns_name, as an end index.
ReadsEnd(reads) ==
    IF reads = {} THEN 0 ELSE (CHOOSE i \in reads : \A j \in reads : j <= i) + 1

RECURSIVE to_string(_)
\* std::to_string of an unsigned value, as ASCII bytes.
to_string(n) ==
    IF n < 10 THEN <<48 + n>> ELSE to_string(n \div 10) \o <<48 + (n % 10)>>

\* The switch on qtype in parse_dns_query.
dns_type_str(qtype) ==
    CASE qtype = 1 -> <<65>>
      [] qtype = 28 -> <<65, 65, 65, 65>>
      [] qtype = 5 -> <<67, 78, 65, 77, 69>>
      [] qtype = 15 -> <<77, 88>>
      [] qtype = 16 -> <<84, 88, 84>>
      [] qtype = 2 -> <<78, 83>>
      [] qtype = 6 -> <<83, 79, 65>>
      [] OTHER -> to_string(qtype)

\* parse_dns_query after parse_dns_name returned q for the first question.
dns_question(info, data, len, is_query, q) ==
    IF q.name = <<>> THEN Saw(info, ReadsEnd(q.reads))
    ELSE IF q.offset + 4 <= len
    THEN [Saw(Saw(info, ReadsEnd(q.reads)), q.offset + 2)
             EXCEPT !.hostname = q.name,
                    !.app_protocol = "DNS",
                    !.app_info = (IF is_query THEN <<81, 117, 101, 114, 121, 32>> ELSE <<82, 101, 115, 112, 111, 110, 115, 101, 32>>)
                                     \o dns_type_str(U16(data, q.offset))]
    ELSE [Saw(info, ReadsEnd(q.reads))
             EXCEPT !.hostname = q.name, !.app_protocol = "DNS"]

\* parse_dns_query(info, data, len).  The header is id, flags, qdcount,
\* ancount, nscount, arcount, two bytes each.
parse_dns_query(info, data, len) ==
    IF len < DNSHeaderSize THEN info
    ELSE IF U16(data, 4) = 0 THEN Saw(info, 6)
    ELSE dns_question(Saw(info, 6), data, len, U16(data, 2) < 32768,
                      parse_dns_name(data, len, DNSHeaderSize))

\* const char* methods[] of parse_http_request, each with its trailing space.
HttpMethods ==
    << <<71, 69, 84, 32>>, <<80, 79, 83, 84, 32>>, <<80, 85, 84, 32>>, <<68, 69, 76, 69, 84, 69, 32>>, <<72, 69, 65, 68, 32>>,
       <<79, 80, 84, 73, 79, 78, 83, 32>>, <<80, 65, 84, 67, 72, 32>>, <<67, 79, 78, 78, 69, 67, 84, 32>> >>

\* len >= strlen(m) && memcmp(data, m, strlen(m)) == 0
StartsWith(data, len, m) ==
    len >= Len(m) /\ \A k \in 1 .. Len(m) : ReadByte(data, k - 1) = m[k]

\* The method of the request, "Response", or nothing when it is not HTTP.
http_method(data, len) ==
    IF \E i \in 1 .. Len(HttpMethods) : StartsWith(data, len, HttpMethods[i])
    THEN LET i == CHOOSE i \in 1 .. Len(HttpMethods) :
                      /\ StartsWith(data, len, HttpMethods[i])
                      /\ \A j \in 1 .. i - 1 : ~StartsWith(data, len, HttpMethods[j])
         IN  SubSeq(HttpMethods[i], 1, Len(HttpMethods[i]) - 1)
    ELSE IF len >= 9 /\ StartsWith(data, len, <<72, 84, 84, 80, 47, 49, 46>>) THEN <<82, 101, 115, 112, 111, 110, 115, 101>>
    ELSE <<>>

\* content.find("\r\n", pos): the 0-based index, or Len(content) + 1 for npos.
find_crlf(content, pos) ==
    IF \E i \in pos .. Len(content) - 2 : content[i + 1] = 13 /\ content[i + 2] = 10
    THEN CHOOSE i \in pos .. Len(content) - 2 :
             /\ content[i + 1] = 13 /\ content[i + 2] = 10
             /\ \A j \in pos .. i - 1 : ~(content[j + 1] = 13 /\ content[j + 2] = 10)
    ELSE Len(content) + 1

\* ::tolower on an ASCII byte.
tolower_byte(b) == IF b >= 65 /\ b <= 90 THEN b + 32 ELSE b

\* The value of a Host: line: the spaces after the name skipped, the port cut.
http_host_value(line) ==
    LET value_start == IF \E i \in 6 .. Len(line) : line[i] /= 32
                       THEN (CHOOSE i \in 6 .. Len(line) :
                                line[i] /= 32 /\ \A j \in 6 .. i - 1 : line[j] = 32) - 1
                       ELSE Len(line)
        value == SubSeq(line, value_start + 1, Len(line))
    IN  IF find(value, 58) = 0 THEN value ELSE SubSeq(value, 1, find(value, 58) - 1)

RECURSIVE http_host(_, _, _)
\* The while loop over the lines of content, from pos; the record with the
\* hostname of the first Host: line, if one is met before the empty line.
http_host(info, content, pos) ==
    IF ~(pos < Len(content)) \/ find_crlf(content, pos) > Len(content) THEN info
    ELSE LET line == SubSeq(content, pos + 1, find_crlf(content, pos))
         IN  IF Len(line) > 6
                /\ [k \in 1 .. 5 |-> tolower_byte(line[k])] = <<104, 111, 115, 116, 58>>
             THEN [info EXCEPT !.hostname = http_host_value(line)]
             ELSE IF line = <<>> THEN info
             ELSE http_host(info, content, find_crlf(content, pos) + 2)

\* The path between the first and the last space of the request line.
http_path(info, content, method) ==
    IF method = <<82, 101, 115, 112, 111, 110, 115, 101>> \/ find_crlf(content, 0) > Len(content) THEN info
    ELSE LET request_line == SubSeq(content, 1, find_crlf(content, 0))
             path_start == find(request_line, 32) - 1
             path_end == (CHOOSE i \in 1 .. Len(request_line) :
                             /\ request_line[i] = 32
                             /\ \A j \in i + 1 .. Len(request_line) :
                                    request_line[j] /= 32) - 1
             path == SubSeq(request_line, path_start + 2, path_end)
         IN  IF find(request_line, 32) /= 0 /\ path_start < path_end
                /\ Len(path) > 1 /\ Len(path) < 50
             THEN [info EXCEPT !.app_info = method \o <<32>> \o path]
             ELSE info

\* parse_http_request(info, data, len)
parse_http_request(info, data, len) ==
    IF len < 16 THEN info
    ELSE IF http_method(data, len) = <<>> THEN Saw(info, 8)
    ELSE http_path(http_host([Saw(info, Min(len, HttpContentMax))
                                 EXCEPT !.app_protocol = "HTTP",
                                        !.app_info = http_method(data, len)],
                             ReadBytes(data, 0, Min(len, HttpContentMax)), 0),
                   ReadBytes(data, 0, Min(len, HttpContentMax)),
                   http_method(data, len))

\* inet_ntop(AF_INET, ...): the four bytes in dotted decimal, as ASCII bytes.
inet_ntop4(b) ==
    to_string(b[1]) \o <<46>> \o to_string(b[2]) \o <<46>> \o to_string(b[3])
        \o <<46>> \o to_string(b[4])

RECURSIVE hex_string(_)
\* sprintf("%x", w)
hex_string(w) ==
    IF w < 16 THEN <<(IF w < 10 THEN 48 + w ELSE 87 + w)>>
    ELSE hex_string(w \div 16) \o hex_string(w % 16)

\* The longest run of two or more zero words, the leftmost of the longest;
\* base is -1 when there is none.
best_zero_run(words) ==
    LET runs == { r \in (0 .. 7) \X (2 .. 8) :
                      /\ r[1] + r[2] <= 8
                      /\ \A k \in r[1] .. r[1] + r[2] - 1 : words[k + 1] = 0
                      /\ (r[1] = 0 \/ words[r[1]] /= 0)
                      /\ (r[1] + r[2] = 8 \/ words[r[1] + r[2] + 1] /= 0) }
    IN  IF runs = {} THEN [base |-> -1, len |-> 0]
        ELSE LET r == CHOOSE r \in runs :
                          \A q \in runs : q[2] < r[2] \/ (q[2] = r[2] /\ q[1] >= r[1])
             IN  [base |-> r[1], len |-> r[2]]

RECURSIVE inet_ntop6_from(_, _, _, _)
\* The text of the words from the i-th on.
inet_ntop6_from(b, words, best, i) ==
    IF i = 8 THEN (IF best.base /= -1 /\ best.base + best.len = 8 THEN <<58>> ELSE <<>>)
    ELSE IF best.base /= -1 /\ i >= best.base /\ i < best.base + best.len
    THEN (IF i = best.base THEN <<58>> ELSE <<>>) \o inet_ntop6_from(b, words, best, i + 1)
    ELSE (IF i /= 0 THEN <<58>> ELSE <<>>)
         \o (IF i = 6 /\ best.base = 0
                /\ (best.len = 6 \/ (best.len = 7 /\ words[8] /= 1)
                    \/ (best.len = 5 /\ words[6] = 65535))
             THEN inet_ntop4(SubSeq(b, 13, 16))
             ELSE hex_string(words[i + 1]) \o inet_ntop6_from(b, words, best, i + 1))

\* inet_ntop(AF_INET6, ...): the sixteen bytes as text, the longest run of
\* zero words written "::".
inet_ntop6(b) ==
    inet_ntop6_from(b, [k \in 1 .. 8 |-> U16(b, 2 * (k - 1))],
                    best_zero_run([k \in 1 .. 8 |-> U16(b, 2 * (k - 1))]), 0)

\* PacketInfo info{} with length, original_length and raw_data assigned.
DefaultInfo(data, caplen, len) ==
    [length |-> caplen, original_length |-> len,
     src_mac |-> <<0, 0, 0, 0, 0, 0>>, dst_mac |-> <<0, 0, 0, 0, 0, 0>>,
     ether_type |-> 0, ip_version |-> 0, src_ip |-> <<>>, dst_ip |-> <<>>,
     protocol |-> 0, ttl |-> 0, src_port |-> 0, dst_port |-> 0, tcp_flags |-> 0,
     hostname |-> <<>>, app_protocol |-> "", app_info |-> <<>>,
     raw_data |-> ReadBytes(data, 0, caplen), read_end |-> caplen]

\* The record an application parser returns for the payload at off, its
\* reads counted from the start of the frame.
AtPayload(info, parsed, off) ==
    [parsed EXCEPT !.read_end = IF @ > 0 /\ off + @ > info.read_end
                                THEN off + @ ELSE info.read_end]

\* if (app_payload && app_remaining > 0) { ... } : the dispatch on the ports.
parse_application(info, data, off, app_remaining) ==
    IF ~(app_remaining > 0) THEN info
    ELSE IF info.src_port = PORT_DNS \/ info.dst_port = PORT_DNS
    THEN AtPayload(info, parse_dns_query([info EXCEPT !.read_end = 0],
                                         ReadBytes(data, off, app_remaining),
                                         app_remaining), off)
    ELSE IF info.src_port = PORT_HTTP \/ info.dst_port = PORT_HTTP
    THEN AtPayload(info, parse_http_request([info EXCEPT !.read_end = 0],
                                            ReadBytes(data, off, app_remaining),
                                            app_remaining), off)
    ELSE IF info.dst_port = PORT_HTTPS
    THEN AtPayload(info, parse_tls_client_hello([info EXCEPT !.read_end = 0],
                                                ReadBytes(data, off, app_remaining),
                                                app_remaining), off)
    ELSE info

\* The TCP header is taken for present though fewer bytes remain.
TcpHeaderFitsAlways(remaining) == remaining >= 0

\* remaining >= sizeof(TCPHeader)
TcpHeaderFits(remaining) == remaining >= TCPHeaderSize

\* The transport layer: TCP, UDP, or neither.
parse_transport(info, data, off, remaining) ==
    IF info.protocol = PROTO_TCP
    THEN IF ~TcpHeaderFits(remaining) THEN info
         ELSE IF (ReadByte(data, off + 12) \div 16) * 4 <= remaining
         THEN parse_application(
                  [Saw(info, off + 14) EXCEPT !.src_port = U16(data, off),
                                              !.dst_port = U16(data, off + 2),
                                              !.tcp_flags = ReadByte(data, off + 13)],
                  data, off + (ReadByte(data, off + 12) \div 16) * 4,
                  remaining - (ReadByte(data, off + 12) \div 16) * 4)
         ELSE [Saw(info, off + 14) EXCEPT !.src_port = U16(data, off),
                                          !.dst_port = U16(data, off + 2),
                                          !.tcp_flags = ReadByte(data, off + 13)]
    ELSE IF info.protocol = PROTO_UDP
    THEN IF ~(remaining >= UDPHeaderSize) THEN info
         ELSE parse_application(
                  [Saw(info, off + 4) EXCEPT !.src_port = U16(data, off),
                                             !.dst_port = U16(data, off + 2)],
                  data, off + UDPHeaderSize, remaining - UDPHeaderSize)
    ELSE info

\* The network layer: ARP, IPv4, IPv6, or an L2-only record.
parse_network(info, data, off, remaining) ==
    IF info.ether_type = ETHERTYPE_ARP
    THEN IF remaining >= ARPHeaderSize
         THEN [Saw(info, off + 28) EXCEPT
                  !.src_ip = inet_ntop4(ReadBytes(data, off + 14, 4)),
                  !.dst_ip = inet_ntop4(ReadBytes(data, off + 24, 4))]
         ELSE info
    ELSE IF info.ether_type = ETHERTYPE_IPV4
    THEN IF remaining < IPv4HeaderSize THEN info
         ELSE IF (ReadByte(data, off) % 16) * 4 > remaining
         THEN [Saw(info, off + 20) EXCEPT
                  !.ip_version = 4, !.protocol = ReadByte(data, off + 9),
                  !.ttl = ReadByte(data, off + 8),
                  !.src_ip = inet_ntop4(ReadBytes(data, off + 12, 4)),
                  !.dst_ip = inet_ntop4(ReadBytes(data, off + 16, 4))]
         ELSE parse_transport(
                  [Saw(info, off + 20) EXCEPT
                      !.ip_version = 4, !.protocol = ReadByte(data, off + 9),
                      !.ttl = ReadByte(data, off + 8),
                      !.src_ip = inet_ntop4(ReadBytes(data, off + 12, 4)),
                      !.dst_ip = inet_ntop4(ReadBytes(data, off + 16, 4))],
                  data, off + (ReadByte(data, off) % 16) * 4,
                  remaining - (ReadByte(data, off) % 16) * 4)
    ELSE IF info.ether_type = ETHERTYPE_IPV6
    THEN IF remaining < IPv6HeaderSize THEN info
         ELSE parse_transport(
                  [Saw(info, off + 40) EXCEPT
                      !.ip_version = 6, !.protocol = ReadByte(data, off + 6),
                      !.ttl = ReadByte(data, off + 7),
                      !.src_ip = inet_ntop6(ReadBytes(data, off + 8, 16)),
                      !.dst_ip = inet_ntop6(ReadBytes(data, off + 24, 16))],
                  data, off + IPv6HeaderSize, remaining - IPv6HeaderSize)
    ELSE info

\* A tag is unwrapped though fewer than four bytes remain.
VlanTagFitsShort(remaining) == remaining >= 2

\* remaining >= 4 of the VLAN loop
VlanTagFits(remaining) == remaining >= 4

RECURSIVE parse_vlan(_, _, _, _)
\* while (info.ether_type == 0x8100 && remaining >= 4) { ... }, then the
\* network layer.
parse_vlan(info, data, off, remaining) ==
    IF info.ether_type = 33024 /\ VlanTagFits(remaining)
    THEN parse_vlan([Saw(info, off + 4) EXCEPT !.ether_type = U16(data, off + 2)],
                    data, off + 4, remaining - 4)
    ELSE parse_network(info, data, off, remaining)

\* parse_packet(data, caplen, len)
parse_packet(data, caplen, len) ==
    IF caplen < EthernetHeaderSize THEN DefaultInfo(data, caplen, len)
    ELSE parse_vlan([DefaultInfo(data, caplen, len) EXCEPT
                        !.src_mac = ReadBytes(data, 6, 6),
                        !.dst_mac = ReadBytes(data, 0, 6),
                        !.ether_type = U16(data, 12)],
                    data, EthernetHeaderSize, caplen - EthernetHeaderSize)

(***************************************************************************)
(* The frames handed to parse_packet: well-formed frames of every layer    *)
(* combination, frames whose length fields point past their end, and       *)
(* every truncation of each (caplen from 0 to the frame's length).         *)
(***************************************************************************)
\* n zero bytes.
Zeros(n) == [k \in 1 .. n |-> 0]

\* A 16-bit value in network byte order.
Be16(v) == <<v \div 256, v % 256>>

\* dst_mac, src_mac, ether_type, payload
EthernetFrame(ether_type, payload) ==
    <<2, 0, 0, 0, 0, 2>> \o <<2, 0, 0, 0, 0, 1>> \o Be16(ether_type) \o payload

\* An 802.1Q tag: the tag control word, then the inner ethertype.
VlanTag(ether_type, payload) == <<0, 5>> \o Be16(ether_type) \o payload

\* An ARP request of 10.0.0.1 for 10.0.0.2.
ArpPacket ==
    <<0, 1, 8, 0, 6, 4, 0, 1>> \o <<2, 0, 0, 0, 0, 1>> \o <<10, 0, 0, 1>>
        \o Zeros(6) \o <<10, 0, 0, 2>>

\* An IPv4 header declaring ihl words, from 10.0.0.1 to 10.0.0.2, TTL 64.
Ipv4Packet(ihl, protocol, options, payload) ==
    <<64 + ihl, 0, 0, 0, 0, 0, 0, 0, 64, protocol, 0, 0>> \o <<10, 0, 0, 1>>
        \o <<10, 0, 0, 2>> \o options \o payload

\* An IPv6 header, from fe80::1 to ::ffff:10.0.0.2, hop limit 64.
Ipv6Packet(next_header, payload) ==
    <<96, 0, 0, 0, 0, 0, next_header, 64>>
        \o (<<254, 128>> \o Zeros(13) \o <<1>>)
        \o (Zeros(10) \o <<255, 255, 10, 0, 0, 2>>) \o payload

\* A TCP header declaring data_offset words, flags PSH|ACK.
TcpSegment(src_port, dst_port, data_offset, options, payload) ==
    Be16(src_port) \o Be16(dst_port) \o Zeros(8) \o <<data_offset * 16, 24>>
        \o Zeros(6) \o options \o payload

\* A UDP header.
UdpDatagram(src_port, dst_port, payload) ==
    Be16(src_port) \o Be16(dst_port) \o Zeros(4) \o payload

\* A DNS message with one question: the encoded name, then type and class.
DnsMessage(flags, qdcount, name, qtype) ==
    <<0, 1>> \o Be16(flags) \o Be16(qdcount) \o Zeros(6) \o name \o Be16(qtype)
        \o <<0, 1>>

\* The encoded question names: a.io, a name ending in a pointer to the
\* header, a pointer to itself, a label longer than the message.
DnsNames ==
    { <<1, 97, 2, 105, 111, 0>>, <<1, 97, 192, 10>>, <<192, 12>>, <<63, 97>> }

\* HTTP payloads: requests with and without a Host line, and a response.
HttpPayloads ==
    { <<71, 69, 84, 32, 47, 105, 110, 100, 101, 120, 32, 72, 84, 84, 80, 47, 49, 46, 49>> \o <<13, 10>> \o <<72, 111, 115, 116, 58, 32, 32, 101, 118, 46, 105, 111, 58, 56, 48, 56, 48>> \o <<13, 10, 13, 10>>,
      <<80, 79, 83, 84, 32, 47, 120, 32, 72, 84, 84, 80, 47, 49, 46, 49>> \o <<13, 10>> \o <<65, 99, 99, 101, 112, 116, 58, 32, 42, 47, 42>> \o <<13, 10, 13, 10>>
          \o <<104, 79, 115, 84, 58, 32, 108, 97, 116, 101, 46, 105, 111>> \o <<13, 10>>,
      <<72, 84, 84, 80, 47, 49, 46, 49, 32, 50, 48, 48, 32, 79, 75>> \o <<13, 10>> \o <<72, 79, 83, 84, 58, 97, 46, 105, 111>> \o <<13, 10>>,
      <<67, 79, 78, 78, 69, 67, 84, 45, 110, 111, 116, 45, 97, 45, 109, 101, 116, 104, 111, 100, 45, 97, 116, 45, 97, 108, 108>> }

\* A server_name extension: type 0, its length, the list length, name type 0
\* and the name with the length it declares.
SniExtension(name_len, name) ==
    <<0, 0>> \o Be16(5 + Len(name)) \o Be16(3 + Len(name)) \o <<0>> \o Be16(name_len)
        \o name

\* Another extension of two bytes, declaring ext_len.
OtherExtension(ext_len) == <<0, 10>> \o Be16(ext_len) \o <<0, 0>>

\* The extension lists of the hellos.
TlsExtensionLists ==
    { SniExtension(4, <<97, 46, 105, 111>>),
      OtherExtension(2) \o SniExtension(4, <<97, 46, 105, 111>>),
      SniExtension(200, <<98, 46, 105, 111>>) \o SniExtension(4, <<97, 46, 105, 111>>),
      OtherExtension(200) \o SniExtension(4, <<97, 46, 105, 111>>),
      OtherExtension(2) }

\* A ClientHello record: each length-prefixed field with the length it
\* declares and the bytes it holds.
TlsHello(sid_len, sid, cs_len, cs, comp_len, comp, extensions_len, extensions) ==
    <<22, 3, 1, 0, 0>> \o <<1, 0, 0, 0>> \o <<3, 3>> \o Zeros(32)
        \o <<sid_len>> \o sid \o Be16(cs_len) \o cs \o <<comp_len>> \o comp
        \o Be16(extensions_len) \o extensions

\* The hellos: every field either with its true length or with one that
\* runs past the end of the record.
TlsHellos ==
    { TlsHello(sid[1], sid[2], cs_len, <<19, 1>>, comp_len, <<0>>,
               Len(extensions) + extra, extensions) :
          sid \in { <<0, <<>> >>, <<2, <<7, 7>> >>, <<200, <<>> >> },
          cs_len \in {2, 200}, comp_len \in {1, 200}, extra \in {0, 50},
          extensions \in TlsExtensionLists }

\* A hello with its true lengths, and one whose extensions block runs past
\* the end.
TlsPayloads ==
    { TlsHello(0, <<>>, 2, <<19, 1>>, 1, <<0>>, 13 + extra, SniExtension(4, <<97, 46, 105, 111>>)) :
          extra \in {0, 50} }

\* The whole frames.
Frames ==
    { EthernetFrame(ETHERTYPE_ARP, ArpPacket),
      EthernetFrame(33024, VlanTag(ETHERTYPE_ARP, ArpPacket)),
      EthernetFrame(35020, <<2, 7, 4>>),
      EthernetFrame(ETHERTYPE_IPV4, Ipv4Packet(5, PROTO_ICMP, <<>>, <<8, 0, 0, 0>>)),
      EthernetFrame(ETHERTYPE_IPV4, Ipv4Packet(15, PROTO_UDP, Zeros(4),
                                               UdpDatagram(40000, 53, Zeros(12)))),
      EthernetFrame(ETHERTYPE_IPV4, Ipv4Packet(0, PROTO_TCP, <<>>,
                                               TcpSegment(40000, 80, 5, <<>>, Zeros(4)))),
      EthernetFrame(ETHERTYPE_IPV4, Ipv4Packet(5, PROTO_TCP, <<>>,
                                               TcpSegment(40000, 443, 15, Zeros(4), <<22>>))),
      EthernetFrame(ETHERTYPE_IPV4, Ipv4Packet(5, PROTO_TCP, <<>>,
                                               TcpSegment(443, 40000, 0, <<>>, <<22>>))) }
    \cup { EthernetFrame(33024, VlanTag(33024, VlanTag(ETHERTYPE_IPV4,
               Ipv4Packet(5, PROTO_UDP, <<>>,
                          UdpDatagram(40000, 53, DnsMessage(256, 1, name, 1)))))) :
               name \in DnsNames }
    \cup { EthernetFrame(ETHERTYPE_IPV6, Ipv6Packet(PROTO_UDP,
               UdpDatagram(53, 40000, DnsMessage(flags, qdcount, <<1, 97, 2, 105, 111, 0>>, qtype)))) :
               flags \in {256, 33152}, qdcount \in {0, 1}, qtype \in {28, 65} }
    \cup { EthernetFrame(ETHERTYPE_IPV4, Ipv4Packet(6, PROTO_TCP, Zeros(4),
               TcpSegment(40000, 80, 5, <<>>, http))) : http \in HttpPayloads }
    \cup { EthernetFrame(ETHERTYPE_IPV6, Ipv6Packet(PROTO_TCP,
               TcpSegment(40000, 443, 6, Zeros(4), tls))) : tls \in TlsPayloads }

\* The inputs of the parsers: every truncation of every frame for
\* parse_packet, every truncation of every hello for parse_tls_client_hello.
ParserInputs ==
    UNION { { [op |-> "frame", data |-> SubSeq(f, 1, caplen), len |-> Len(f)] :
                caplen \in 0 .. Len(f) } : f \in Frames }
    \cup UNION { { [op |-> "tls_input", data |-> SubSeq(h, 1, len)] :
                     len \in 0 .. Len(h) } : h \in TlsHellos }

\* One input is drawn; the rest of the program is in its initial state.
ParserInit ==
    /\ StoreInit /\ AlertInit /\ MatchInit /\ MapperInit /\ CaptureInit /\ LockInit
    /\ ret \in ParserInputs

\* parse_packet on the captured bytes of a frame.
ParsePacket ==
    /\ ret.op = "frame"
    /\ ret' = [op |-> "parse_packet", data |-> ret.data,
               val |-> parse_packet(ret.data, Len(ret.data), ret.len)]
    /\ UNCHANGED notRetVars

\* parse_tls_client_hello on a fresh record.
ParseTlsClientHello ==
    /\ ret.op = "tls_input"
    /\ ret' = [op |-> "parse_tls_client_hello", data |-> ret.data,
               val |-> parse_tls_client_hello(
                           [DefaultInfo(ret.data, Len(ret.data), Len(ret.data))
                               EXCEPT !.read_end = 0],
                           ret.data, Len(ret.data))]
    /\ UNCHANGED notRetVars

(***************************************************************************)
(* ProcessMapper: lookups, refresh and clear (process_mapper.cpp).         *)
(* steady_now is std::chrono::steady_clock in ticks, TicksPerMilli of them *)
(* to the millisecond; it starts after the epoch, so that a stored time    *)
(* point is never the zero one clear() leaves.  proc_fs is what /proc      *)
(* shows: the lines of /proc/net/tcp and /proc/net/udp and the entries of  *)
(* /proc in readdir order.                                                 *)
(***************************************************************************)
\* cache_ttl_{500}, in milliseconds, scaled down.
cache_ttl_ == 2

TicksPerMilli == 1

\* The steady clock stops here.
MaxSteady == 3

\* A cache that is never taken to be valid.
is_cache_valid_never(cached_at, now_) == FALSE

\* ProcessMapper::is_cache_valid(cached_at) when steady_clock::now() is now_;
\* duration_cast<milliseconds> truncates.
is_cache_valid(cached_at, now_) ==
    IF cached_at = 0 THEN FALSE
    ELSE ((now_ - cached_at) \div TicksPerMilli) < cache_ttl_

\* The members the private functions work on.
MapperState ==
    [socket_table |-> socket_table_, inode_to_process |-> inode_to_process_,
     process_name_cache |-> process_name_cache_,
     last_socket_refresh |-> last_socket_refresh_]

\* A clear() that leaves the time of the last refresh as it is.
ClearedStateKeepsStamp ==
    [socket_table |-> {}, inode_to_process |-> {}, process_name_cache |-> {},
     last_socket_refresh |-> last_socket_refresh_]

\* A mapper that has read nothing: what clear() leaves.
ClearedState ==
    [socket_table |-> {}, inode_to_process |-> {}, process_name_cache |-> {},
     last_socket_refresh |-> 0]

\* refresh_socket_table(PROTO_TCP); refresh_socket_table(PROTO_UDP);
\* refresh_inode_mapping();
walk_tables(s, fs) ==
    refresh_inode_mapping(
        refresh_socket_table(refresh_socket_table(s, fs.tcp, PROTO_TCP), fs.udp, PROTO_UDP),
        fs.proc)

\* The first part of lookup, "Check if we need to refresh socket tables",
\* at time now_ with /proc showing fs.
lookup_refresh(s, fs, now_) ==
    IF ~is_cache_valid(s.last_socket_refresh, now_)
    THEN [walk_tables(s, fs) EXCEPT !.last_socket_refresh = now_]
    ELSE s

\* The SocketKey lookup builds from its arguments, both addresses IPv4 text.
lookup_key(local_ip, local_port, remote_ip, remote_port, protocol) ==
    [local_addr |-> inet_pton_value(local_ip), local_port |-> local_port,
     remote_addr |-> inet_pton_value(remote_ip), remote_port |-> remote_port,
     protocol |-> protocol]

\* std::swap of the two addresses and of the two ports of a key.
swapped_key(key) ==
    [local_addr |-> key.remote_addr, local_port |-> key.remote_port,
     remote_addr |-> key.local_addr, remote_port |-> key.local_port,
     protocol |-> key.protocol]

\* "Look up inode -> process" for the inode of a socket of the table.
lookup_inode(s, inode) ==
    IF ~MapHas(s.inode_to_process, inode) THEN Nullopt
    ELSE MapGet(s.inode_to_process, inode)

\* A lookup that does not try the swapped key.
lookup_socket_direct(s, key) ==
    IF MapHas(s.socket_table, key) THEN lookup_inode(s, MapGet(s.socket_table, key))
    ELSE Nullopt

\* "Look up socket in table": the key, and if it is not there the swapped
\* key.
lookup_socket(s, key) ==
    IF MapHas(s.socket_table, key) THEN lookup_inode(s, MapGet(s.socket_table, key))
    ELSE IF MapHas(s.socket_table, swapped_key(key))
    THEN lookup_inode(s, MapGet(s.socket_table, swapped_key(key)))
    ELSE Nullopt

\* From "Build socket key" to the end of lookup, on refreshed tables.
lookup_tables(s, local_ip, local_port, remote_ip, remote_port, protocol) ==
    IF ~inet_pton_ok(local_ip) \/ ~inet_pton_ok(remote_ip) THEN Nullopt
    ELSE lookup_socket(s, lookup_key(local_ip, local_port, remote_ip, remote_port,
                                     protocol))

\* ProcessMapper::lookup once its first part has left the members as after:
\* the mapper afterwards, the value returned, and whether the tables were
\* walked.
lookup_from(after, walked, local_ip, local_port, remote_ip, remote_port, protocol) ==
    [state |-> after,
     result |-> lookup_tables(after, local_ip, local_port, remote_ip, remote_port,
                              protocol),
     walked |-> walked]

\* ProcessMapper::lookup at time now_, with /proc showing fs.
lookup(s, fs, now_, local_ip, local_port, remote_ip, remote_port, protocol) ==
    lookup_from(lookup_refresh(s, fs, now_),
                ~is_cache_valid(s.last_socket_refresh, now_),
                local_ip, local_port, remote_ip, remote_port, protocol)

\* The end of lookup_packet: the first lookup's value if it has one, else
\* the second's.
lookup_packet_result(first, second) ==
    IF first.result /= Nullopt
    THEN [state |-> first.state, result |-> first.result,
          walks |-> IF first.walked THEN 1 ELSE 0]
    ELSE [state |-> second.state, result |-> second.result,
          walks |-> (IF first.walked THEN 1 ELSE 0)
                    + (IF second.walked THEN 1 ELSE 0)]

\* ProcessMapper::lookup_packet once its first lookup has returned first:
\* if that found nothing, the lookup of the other direction, which starts d
\* ticks later if the first walked.  The caller's two lookups are taken as
\* one step of the caller.
lookup_packet(first, fs, now_, d, src_ip, src_port, dst_ip, dst_port, protocol) ==
    lookup_packet_result(
        first,
        lookup(first.state, fs, IF first.walked THEN now_ + d ELSE now_,
               dst_ip, dst_port, src_ip, src_port, protocol))

\* One line of /proc/net/tcp or udp, as the tokens refresh_socket_table reads.
ProcNetRow(local_address, rem_address, inode) ==
    [local_address |-> local_address, rem_address |-> rem_address, inode |-> inode]

ProcNetHeader == ProcNetRow(<<"l", "o", "c", "a", "l", "_", "a", "d", "d", "r", "e", "s", "s">>, <<"r", "e", "m", "_", "a", "d", "d", "r", "e", "s", "s">>, 0)

\* An entry of /proc, and a descriptor of /proc/PID/fd.
ProcEntry(d_name, d_type, fd, comm) ==
    [d_name |-> d_name, d_type |-> d_type, fd |-> fd, comm |-> comm]

FdLink(target) == [d_type |-> "DT_LNK", target |-> target]

SelfEntry == ProcEntry(<<"s", "e", "l", "f">>, "DT_LNK", NoDir, NoFile)

\* 10.0.0.1:40000 -> 10.0.0.2:443
RowClient(inode) == ProcNetRow(<<"0", "1", "0", "0", "0", "0", "0", "A", ":", "9", "C", "4", "0">>, <<"0", "2", "0", "0", "0", "0", "0", "A", ":", "0", "1", "B", "B">>, inode)

\* What /proc shows at different times of one machine.
ProcWorlds ==
    << EmptyProcFs,
       \* one TCP connection, owned by process 100
       [tcp |-> FileOf(<<ProcNetHeader, RowClient(11)>>), udp |-> FileOf(<<ProcNetHeader>>),
        proc |-> DirOf(<<SelfEntry,
                        ProcEntry(<<"1", "0", "0">>, "DT_DIR", DirOf(<<FdLink(<<"/", "d", "e", "v", "/", "n", "u", "l", "l">>), FdLink(<<"s", "o", "c", "k", "e", "t", ":", "[", "1", "1", "]">>)>>),
                                  FileOf(<<<<"c", "u", "r", "l">>>>))>>)],
       \* a loopback connection: both ends are sockets of this machine
       [tcp |-> FileOf(<<ProcNetHeader,
                        ProcNetRow(<<"0", "1", "0", "0", "0", "0", "7", "F", ":", "1", "3", "8", "8">>, <<"0", "1", "0", "0", "0", "0", "7", "F", ":", "1", "7", "7", "0">>, 21),
                        ProcNetRow(<<"0", "1", "0", "0", "0", "0", "7", "F", ":", "1", "7", "7", "0">>, <<"0", "1", "0", "0", "0", "0", "7", "F", ":", "1", "3", "8", "8">>, 22)>>),
        udp |-> FileOf(<<ProcNetHeader>>),
        proc |-> DirOf(<<ProcEntry(<<"1", "0", "0">>, "DT_DIR", DirOf(<<FdLink(<<"s", "o", "c", "k", "e", "t", ":", "[", "2", "1", "]">>)>>), FileOf(<<<<"c", "u", "r", "l">>>>)),
                        ProcEntry(<<"2", "0", "0">>, "DT_DIR", DirOf(<<FdLink(<<"s", "o", "c", "k", "e", "t", ":", "[", "2", "2", "]">>)>>), FileOf(<<<<"n", "g", "i", "n", "x">>>>))>>)],
       \* the connection of another user's process: its fd directory cannot be opened
       [tcp |-> FileOf(<<ProcNetHeader, RowClient(11)>>), udp |-> FileOf(<<ProcNetHeader>>),
        proc |-> DirOf(<<ProcEntry(<<"1", "0", "0">>, "DT_DIR", NoDir, FileOf(<<<<"c", "u", "r", "l">>>>))>>)],
       \* the same addresses and ports again on a new socket, /proc unreadable
       [tcp |-> FileOf(<<ProcNetHeader, RowClient(12)>>), udp |-> NoFile, proc |-> NoDir],
       \* a UDP socket among lines and entries that are skipped; its owner
       \* exits before its name is read
       [tcp |-> NoFile,
        udp |-> FileOf(<<ProcNetHeader,
                        ProcNetRow(<<"0", "1", "0", "0", "0", "0", "0", "A", ":", "9", "C", "4", "0">>, <<"0", "2", "0", "0", "0", "0", "0", "A", ":", "0", "0", "3", "5">>, 0),
                        ProcNetRow(<<"0", "1", "0", "0", "0", "0", "0", "A">>, <<"0", "2", "0", "0", "0", "0", "0", "A", ":", "0", "0", "3", "5">>, 31),
                        ProcNetRow(<<"0", "1", "0", "0", "0", "0", "0", "A", ":", "9", "C", "4", "0">>, <<"0", "2", "0", "0", "0", "0", "0", "A">>, 32),
                        ProcNetRow(<<"0", "1", "0", "0", "0", "0", "0", "A", ":", "9", "C", "4", "0">>, <<"0", "2", "0", "0", "0", "0", "0", "A", ":", "0", "0", "3", "5">>, 33)>>),
        proc |-> DirOf(<<ProcEntry(<<"1", "0", "0">>, "DT_REG", NoDir, NoFile),
                        ProcEntry(<<"1", "a">>, "DT_DIR", DirOf(<<FdLink(<<"s", "o", "c", "k", "e", "t", ":", "[", "3", "3", "]">>)>>), FileOf(<<<<"s", "h">>>>)),
                        ProcEntry(<<"3", "0", "0">>, "DT_DIR",
                                  DirOf(<<[d_type |-> "DT_DIR", target |-> <<>>], FdLink(<<>>),
                                          FdLink(<<"s", "o", "c", "k", "e", "t", ":", "[", "3", "3">>), FdLink(<<"s", "o", "c", "k", "e", "t", ":", "[", "x", "]">>),
                                          FdLink(<<"s", "o", "c", "k", "e", "t", ":", "[", "9", "9", "]">>), FdLink(<<"s", "o", "c", "k", "e", "t", ":", "[", "3", "3", "]">>)>>),
                                  NoFile)>>)] >>

\* The arguments of the lookups: addresses as text, ports, protocol.
LookupTuples ==
    { <<<<"1", "0", ".", "0", ".", "0", ".", "1">>, 40000, <<"1", "0", ".", "0", ".", "0", ".", "2">>, 443, PROTO_TCP>>,
      <<<<"1", "0", ".", "0", ".", "0", ".", "2">>, 443, <<"1", "0", ".", "0", ".", "0", ".", "1">>, 40000, PROTO_TCP>>,
      <<<<"1", "2", "7", ".", "0", ".", "0", ".", "1">>, 5000, <<"1", "2", "7", ".", "0", ".", "0", ".", "1">>, 6000, PROTO_TCP>>,
      <<<<"1", "0", ".", "0", ".", "0", ".", "2">>, 53, <<"1", "0", ".", "0", ".", "0", ".", "1">>, 40000, PROTO_UDP>>,
      <<<<":", ":", "1">>, 5000, <<"1", "2", "7", ".", "0", ".", "0", ".", "1">>, 6000, PROTO_TCP>> }

\* Whether the tables were ever walked, and last less than the TTL ago.
RefreshedRecently ==
    /\ pm_log.refresh_at > 0
    /\ steady_now - pm_log.refresh_at < cache_ttl_ * TicksPerMilli

\* Whether a refresh is on record and less than the TTL old.
InTtlWindow ==
    /\ pm_log.populated
    /\ steady_now - pm_log.refresh_at < cache_ttl_ * TicksPerMilli

(***************************************************************************)
(* From frame to display: packet_callback on the capture thread            *)
(* (capture.cpp), the category of a stored record as the packet list shows *)
(* it (packet_list.cpp).  PacketStore::push runs under its lock_guard from *)
(* its first statement to its last and is one step here.                   *)
(***************************************************************************)
\* The record parse_packet returns for a DNS query over UDP with the given
\* host name and addresses: watchlist_match false, label and category empty.
ParsedFrame(frame, seq) ==
    [seq |-> seq, original_length |-> 80, app_protocol |-> "DNS",
     ether_type |-> ETHERTYPE_IPV4, protocol |-> PROTO_UDP, ip_version |-> 4,
     category |-> <<>>] @@ frame

\* The frames captured: one that names a host and one that names none.
CapturedFrames ==
    {p \in MatchPackets : p.hostname \in {<<>>, <<"w", ".", "e", "v", ".", "i", "o">>}}

\* packets_ after push(pkt): push_back, then pop_front beyond MAX_PACKETS
push_packets(pk, pkt) ==
    IF StoreFull(Append(pk, pkt)) THEN Tail(Append(pk, pkt)) ELSE Append(pk, pkt)

\* selected_index_ after push(pkt)
push_selected(pk, pkt, idx) ==
    IF StoreFull(Append(pk, pkt)) THEN ShiftSelected(idx) ELSE idx

\* PacketCapture::packet_callback: info = parse_packet(...); store_.push(info).
\* watch and desc are history: what the watchlist and the description
\* database answer about the record at the moment it is pushed.
Callback ==
    /\ cap_pc = "idle"
    /\ CanLock
    /\ npush < MaxPushes
    /\ \E frame \in CapturedFrames :
         \E info \in {ParsedFrame(frame, npush + 1)} :
           /\ packets_' = push_packets(packets_, info)
           /\ selected_index_' = push_selected(packets_, info, selected_index_)
           /\ stats_' = update_stats_unlocked(stats_, info)
           /\ pushed' = Append(pushed, info)
           /\ ret' = [op |-> "packet_callback", val |-> info,
                      watch |-> check_and_mark(wl_entries_, info).matched,
                      desc |-> description_lookup(db_entries_, info.hostname)]
    /\ npush' = npush + 1
    /\ sel_before' = [idx |-> selected_index_,
                      pkt |-> SelectedPacket(packets_, selected_index_)]
    /\ UNCHANGED <<mutex_, cap_pc, now, rate_log>>
    /\ UNCHANGED notStoreVars

\* PacketListPanel::get_category: where the category shown comes from, and
\* the category when it is one of a record or of the database.
get_category(entries, pkt) ==
    IF pkt.category /= <<>>
    THEN [from |-> "record", category |-> pkt.category]
    ELSE IF pkt.hostname /= <<>> /\ description_lookup(entries, pkt.hostname) /= Nullopt
    THEN [from |-> "database",
          category |-> description_lookup(entries, pkt.hostname).category]
    ELSE IF pkt.app_protocol /= ""
    THEN [from |-> "app_protocol", category |-> <<>>]
    ELSE [from |-> "none", category |-> <<>>]

\* The packet list renders the row of a stored record.
GetCategory ==
    /\ CanLock
    /\ \E i \in 1 .. Len(packets_) :
         ret' = [op |-> "get_category", pkt |-> packets_[i],
                 val |-> get_category(db_entries_, packets_[i])]
    /\ UNCHANGED <<storeVars, notStoreVars>>

(***************************************************************************)
(* Config::parse_fields asked directly, on every line of at most           *)
(* MaxLineLen characters drawn from a letter, both delimiters and the      *)
(* backslash.                                                              *)
(***************************************************************************)
LineChars == {"a", ":", ",", "\\"}

FieldLines == UNION { [1 .. n -> LineChars] : n \in 0 .. MaxLineLen }

FieldsInit ==
    /\ StoreInit /\ AlertInit /\ MatchInit /\ MapperInit /\ CaptureInit /\ LockInit
    /\ ret \in { [op |-> "line", line |-> line, delimiter |-> delimiter] :
                 line \in FieldLines, delimiter \in {":", ","} }

\* fields = Config::parse_fields(line, delimiter)
ParseFields ==
    /\ ret.op = "line"
    /\ ret' = [op |-> "parse_fields", line |-> ret.line, delimiter |-> ret.delimiter,
               val |-> parse_fields(ret.line, ret.delimiter)]
    /\ UNCHANGED notRetVars

(***************************************************************************)
(* The packet store shared by the capture thread (push) and the UI thread  *)
(* (accessors, selection, clear).                                          *)
(***************************************************************************)
Init == StoreInit /\ AlertInit /\ MatchInit /\ MapperInit /\ CaptureInit /\ LockInit /\ ret = [op |-> "init", val |-> Void]

Next ==
    \/ PushBegin
    \/ PushStats
    \/ PushEvict
    \/ GetStats
    \/ GetAll
    \/ Size
    \/ GetSelectedPacket
    \/ SetSelectedIndex
    \/ Clear

Spec == Init /\ [][Next]_vars

(***************************************************************************)
(* The statistics of the packet store over time: the capture thread        *)
(* pushes, the UI thread calls update_rates and get_stats at any cadence   *)
(* while the steady clock advances.                                        *)
(***************************************************************************)
RatesNext ==
    \/ Tick
    \/ PushBegin
    \/ PushStats
    \/ PushEvict
    \/ UpdateRates
    \/ GetStats
    \/ Clear

SpecRates == Init /\ [][RatesNext]_vars

(***************************************************************************)
(* The alerts of the watchlist: one thread adds alerts, the UI thread      *)
(* polls has_new_alerts and reads, clears and configures.                  *)
(***************************************************************************)
AlertsNext ==
    \/ AddAlertBegin
    \/ AddAlertFlag
    \/ AddAlertLog
    \/ HasNewAlerts
    \/ GetRecentAlerts
    \/ GetLatestAlert
    \/ ClearAlerts
    \/ SetLogFile

SpecAlerts == Init /\ [][AlertsNext]_vars

(***************************************************************************)
(* The watchlist and the description database, loaded and queried by the   *)
(* application (load, reload, check, check_and_mark, size, lookup).        *)
(***************************************************************************)
WatchNext ==
    \/ WatchlistLoad
    \/ WatchlistReload
    \/ WatchlistSize
    \/ WatchlistCheck
    \/ WatchlistCheckAndMark
    \/ DescriptionLoad
    \/ DescriptionLookup

SpecWatch == Init /\ [][WatchNext]_vars

(***************************************************************************)
(* Network-range entries asked about candidate addresses.                  *)
(***************************************************************************)
CidrNext == MatchesIp

SpecCidr == Init /\ [][CidrNext]_vars

(***************************************************************************)
(* Wildcard entries of the watchlist and of the description table asked    *)
(* about host names.                                                       *)
(***************************************************************************)
WildNext ==
    \/ WildcardWatch
    \/ WildcardDesc

SpecWild == Init /\ [][WildNext]_vars

(***************************************************************************)
(* parse_dns_name called on every buffer and start offset.                 *)
(***************************************************************************)
DnsNext == ParseDnsName

SpecDns == DnsInit /\ [][DnsNext]_vars

\* The parsers of packet.cpp, each applied once to the input drawn.
ParserNext == ParsePacket \/ ParseTlsClientHello

SpecParser == ParserInit /\ [][ParserNext]_vars

\* The steady clock advances.
SteadyTick ==
    /\ steady_now < MaxSteady
    /\ steady_now' = steady_now + 1
    /\ UNCHANGED <<socket_table_, inode_to_process_, process_name_cache_,
                   last_socket_refresh_, proc_fs, pm_log, ret>>
    /\ UNCHANGED notMapperVars

\* Sockets are opened and closed, processes start and exit.
ProcChanges ==
    \E w \in 1 .. Len(ProcWorlds) :
        /\ proc_fs /= ProcWorlds[w]
        /\ proc_fs' = ProcWorlds[w]
        /\ ret' = [op |-> "proc_changes", val |-> Void, walked |-> FALSE]
        /\ UNCHANGED <<socket_table_, inode_to_process_, process_name_cache_,
                       last_socket_refresh_, steady_now, pm_log>>
        /\ UNCHANGED notMapperVars

\* The members after a private function returned s.
MapperBecomes(s) ==
    /\ socket_table_' = s.socket_table
    /\ inode_to_process_' = s.inode_to_process
    /\ process_name_cache_' = s.process_name_cache
    /\ last_socket_refresh_' = s.last_socket_refresh

\* ProcessMapper::lookup(local_ip, local_port, remote_ip, remote_port,
\* protocol); walking the tables takes d ticks.
Lookup ==
    \E after \in {lookup_refresh(MapperState, proc_fs, steady_now)} :
    \E walked \in {~is_cache_valid(last_socket_refresh_, steady_now)} :
    \E t \in LookupTuples, d \in 0 .. 1 :
        /\ d = 1 => walked /\ steady_now < MaxSteady
        /\ MapperBecomes(after)
        /\ steady_now' = steady_now + d
        /\ pm_log' = IF walked THEN [populated |-> TRUE, refresh_at |-> steady_now]
                     ELSE pm_log
        /\ ret' = [op |-> "lookup", args |-> t,
                   val |-> lookup_from(after, walked, t[1], t[2], t[3], t[4], t[5]).result,
                   walked |-> walked, populated |-> pm_log.populated,
                   in_window |-> InTtlWindow, recent |-> RefreshedRecently]
        /\ UNCHANGED proc_fs
        /\ UNCHANGED notMapperVars

\* ProcessMapper::lookup_packet(src_ip, src_port, dst_ip, dst_port,
\* protocol); the walk of its first lookup takes d ticks.  reverse is what
\* the call for the packets of the other direction returns right after it.
LookupPacket ==
    \E after \in {lookup_refresh(MapperState, proc_fs, steady_now)} :
    \E walked \in {~is_cache_valid(last_socket_refresh_, steady_now)} :
    \E t \in LookupTuples, d \in {n \in 0 .. 1 : n = 1 => walked /\ steady_now < MaxSteady} :
    \E r \in {lookup_packet(lookup_from(after, walked, t[1], t[2], t[3], t[4], t[5]),
                            proc_fs, steady_now, d, t[1], t[2], t[3], t[4], t[5])} :
    \E end \in {steady_now + d} :
        /\ MapperBecomes(r.state)
        /\ steady_now' = end
        /\ pm_log' = IF r.walks > 0
                     THEN [populated |-> TRUE, refresh_at |-> r.state.last_socket_refresh]
                     ELSE pm_log
        /\ ret' = [op |-> "lookup_packet", args |-> t, val |-> r.result,
                   walked |-> r.walks > 0, walks |-> r.walks,
                   reverse |-> lookup_packet(
                                   lookup(r.state, proc_fs, end, t[3], t[4], t[1], t[2], t[5]),
                                   proc_fs, end, 0, t[3], t[4], t[1], t[2], t[5]).result,
                   populated |-> pm_log.populated, in_window |-> InTtlWindow,
                   recent |-> RefreshedRecently]
        /\ UNCHANGED proc_fs
        /\ UNCHANGED notMapperVars

\* ProcessMapper::refresh(); walking the tables takes d ticks.
Refresh ==
    \E after \in {walk_tables(MapperState, proc_fs)} :
    \E d \in 0 .. 1 :
        /\ steady_now + d <= MaxSteady
        /\ MapperBecomes([after EXCEPT !.last_socket_refresh = steady_now + d])
        /\ steady_now' = steady_now + d
        /\ pm_log' = [populated |-> TRUE, refresh_at |-> steady_now + d]
        /\ ret' = [op |-> "refresh", val |-> Void, walked |-> TRUE]
        /\ UNCHANGED proc_fs
        /\ UNCHANGED notMapperVars

\* ProcessMapper::clear()
MapperClear ==
    /\ MapperBecomes(ClearedState)
    /\ pm_log' = [pm_log EXCEPT !.populated = FALSE]
    /\ ret' = [op |-> "clear", val |-> Void, walked |-> FALSE]
    /\ UNCHANGED <<steady_now, proc_fs>>
    /\ UNCHANGED notMapperVars

\* ProcessMapper::cache_size()
CacheSize ==
    /\ ret' = [op |-> "cache_size", val |-> Cardinality(inode_to_process_), walked |-> FALSE]
    /\ UNCHANGED mapperVars
    /\ UNCHANGED notMapperVars

\* ProcessMapper::socket_table_size()
SocketTableSize ==
    /\ ret' = [op |-> "socket_table_size", val |-> Cardinality(socket_table_), walked |-> FALSE]
    /\ UNCHANGED mapperVars
    /\ UNCHANGED notMapperVars

\* The process mapper alone, on a machine whose /proc changes.
MapperNext ==
    \/ SteadyTick
    \/ ProcChanges
    \/ Lookup
    \/ LookupPacket
    \/ Refresh
    \/ MapperClear
    \/ CacheSize
    \/ SocketTableSize

SpecMapper == Init /\ [][MapperNext]_vars

(***************************************************************************)
(* The packet capture: the UI thread opens, starts, stops and closes the   *)
(* capture and reads is_running and the statistics; the capture thread     *)
(* runs capture_loop and pushes into the store.                            *)
(***************************************************************************)
CaptureThreadStep ==
    \/ LoopTest
    \/ DispatchReturn
    \/ PushStats
    \/ PushEvict

StopStep ==
    \/ StopBreak
    \/ StopJoin
    \/ StopReturn

\* The calls that control the capture, and the capture thread.
ControlNext ==
    \/ Open
    \/ OpenLive
    \/ Start
    \/ Stop
    \/ Close
    \/ CloseHandle
    \/ PacketCallback
    \/ CaptureThreadStep
    \/ StopStep

CaptureNext ==
    \/ ControlNext
    \/ IsRunning
    \/ CaptureGetStats

SpecCapture == Init /\ [][CaptureNext]_vars

\* The capture thread is scheduled and pcap_dispatch returns within its
\* read timeout; the UI thread inside stop() runs on.  Packets need not
\* arrive, and the UI thread need not make another call.  The queries of
\* the UI thread change nothing and are left out.
SpecCaptureFair ==
    /\ Init
    /\ [][ControlNext]_vars
    /\ WF_vars(CaptureThreadStep)
    /\ WF_vars(StopStep)

(***************************************************************************)
(* The pipeline from frame to display: the databases are loaded, the       *)
(* capture thread delivers frames, the UI thread reads the store and       *)
(* renders categories.                                                     *)
(***************************************************************************)
EnrichNext ==
    \/ WatchlistLoad
    \/ DescriptionLoad
    \/ Callback
    \/ GetAll
    \/ GetCategory

SpecEnrich == Init /\ [][EnrichNext]_vars

(***************************************************************************)
(* Config::parse_fields on one line.                                       *)
(***************************************************************************)
SpecFields == FieldsInit /\ [][ParseFields]_vars

(***************************************************************************)
(* The capture thread and the UI thread each call public functions of the  *)
(* four components, one after the other, in any interleaving.              *)
(***************************************************************************)
LocksNext ==
    \/ LockCall
    \/ LockAcquire
    \/ LockRelease

SpecLocks == Init /\ [][LocksNext]_vars

(***************************************************************************)
(* Properties of the packet store.                                         *)
(***************************************************************************)
\* C1: what size() and get_all() return never exceeds MAX_PACKETS; whenever
\* no push is in progress the store holds exactly the last MAX_PACKETS
\* records pushed since the last clear, in push order, and get_all() returns
\* exactly those.
C1_StoreHoldsLastCapacity ==
    /\ (ret.op = "size" => ret.val <= MAX_PACKETS)
    /\ (ret.op = "get_all" =>
            /\ Len(ret.val) <= MAX_PACKETS
            /\ ret.val = LastN(pushed, MAX_PACKETS))
    /\ (mutex_ = "free" =>
            /\ Len(packets_) = Min(Len(pushed), MAX_PACKETS)
            /\ packets_ = LastN(pushed, MAX_PACKETS))

\* C1 witness: get_all() after capacity + 2 pushes returns the last
\* capacity records, the two oldest gone.
C1_Witness ==
    /\ ret.op = "get_all"
    /\ Len(pushed) = MAX_PACKETS + 2
    /\ Len(ret.val) = MAX_PACKETS
    /\ ret.val[1].seq = pushed[3].seq

\* C2: every get_stats() snapshot counts exactly the records pushed since
\* the last clear: the totals equal their number and the sum of their
\* original_length, the per-protocol counts and bytes add up to the totals,
\* and the store holds the records counted (up to its capacity).
C2_SnapshotIsPrefix ==
    ret.op = "get_stats" =>
        /\ ret.val.packets_received = Len(pushed)
        /\ ret.val.bytes_received = SumSeq(pushed, 1)
        /\ SumFun(ret.val.protocol_counts, ProtoLabels) = ret.val.packets_received
        /\ SumFun(ret.val.protocol_bytes, ProtoLabels) = ret.val.bytes_received
        /\ \A l \in ProtoLabels :
             ret.val.protocol_counts[l] =
                 Cardinality({i \in 1 .. Len(pushed) : protocol_name(pushed[i]) = l})
        /\ Len(packets_) = Min(ret.val.packets_received, MAX_PACKETS)

\* C2 witness: a snapshot taken after pushes of both protocols, one of them
\* already evicted from the store.
C2_Witness ==
    /\ ret.op = "get_stats"
    /\ ret.val.packets_received > MAX_PACKETS
    /\ ret.val.protocol_counts["DNS"] > 0
    /\ ret.val.protocol_counts["IP/47"] > 0

\* This push evicted the oldest record.
PushEvicted == ret.op = "push" /\ Len(pushed) > MAX_PACKETS

\* C3 as stated: after every push that evicts, get_selected_packet() returns
\* the record it returned before the push.
C3_Original ==
    PushEvicted => SelectedPacket(packets_, selected_index_) = sel_before.pkt

\* C3 amended: a push that evicts shifts a nonzero selection down by one and
\* get_selected_packet() then returns the same record as before the push; a
\* selection of 0 stays 0, the record it selected is the one evicted, and
\* get_selected_packet() returns the next oldest record instead.
C3_SelectionTracksUnlessEvicted ==
    PushEvicted =>
        /\ sel_before.idx > 0 =>
              /\ selected_index_ = sel_before.idx - 1
              /\ SelectedPacket(packets_, selected_index_) = sel_before.pkt
        /\ sel_before.idx = 0 =>
              /\ selected_index_ = 0
              /\ sel_before.pkt = pushed[Len(pushed) - MAX_PACKETS]
              /\ SelectedPacket(packets_, selected_index_) =
                     pushed[Len(pushed) - MAX_PACKETS + 1]

\* C3 witness: an evicting push that found a nonzero selection and left it
\* on the same record.
C3_Witness ==
    /\ PushEvicted
    /\ sel_before.idx > 0
    /\ SelectedPacket(packets_, selected_index_) = sel_before.pkt
    /\ sel_before.pkt.seq > 0

\* C4: an update_rates call made less than one second after the last rate
\* computation, construction or clear changes nothing in the statistics
\* (rates, histories, last_packets, last_bytes, last_rate_update).
C4_UpdateRatesNoOpWithinSecond ==
    [][(ret'.op = "update_rates" /\ now' - stats_.last_rate_update < TicksPerSecond)
          => stats_' = stats_]_vars

\* C4 witness: update_rates has just returned half a second after the last
\* computation, with records pushed in between that a recomputation would
\* have counted.
C4_Witness ==
    /\ ret.op = "update_rates"
    /\ now - stats_.last_rate_update > 0
    /\ now - stats_.last_rate_update < TicksPerSecond
    /\ stats_.packets_received > stats_.last_packets
    /\ Len(stats_.pps_history) > 0

\* The k-th components of the pairs in s.
Column(s, k) == [i \in 1 .. Len(s) |-> s[i][k]]

\* C5: both rate histories have the same length, at most MAX_HISTORY, and
\* hold exactly the last MAX_HISTORY samples computed since the last clear,
\* oldest first: each computing update_rates appended one sample to each and
\* dropped the oldest once MAX_HISTORY were held.
C5_HistoryBounded ==
    /\ Len(stats_.pps_history) = Len(stats_.bps_history)
    /\ Len(stats_.pps_history) <= MAX_HISTORY
    /\ stats_.pps_history = LastN(Column(rate_log, 1), MAX_HISTORY)
    /\ stats_.bps_history = LastN(Column(rate_log, 2), MAX_HISTORY)

\* C5 witness: one more sample than the history holds has been computed.
C5_Witness ==
    /\ ret.op = "update_rates"
    /\ Len(rate_log) = MAX_HISTORY + 1
    /\ Len(stats_.pps_history) = MAX_HISTORY
    /\ stats_.pps_history[MAX_HISTORY] = rate_log[MAX_HISTORY + 1][1]

(***************************************************************************)
(* Properties of the alerts of the watchlist.                              *)
(***************************************************************************)
\* s in reverse order.
Reverse(s) == [i \in 1 .. Len(s) |-> s[Len(s) + 1 - i]]

\* The first n elements of s (all of s when it is shorter).
FirstN(s, n) == SubSeq(s, 1, Min(n, Len(s)))

\* C6: the alert sequence never holds more than MAX_ALERTS alerts: it is
\* always the MAX_ALERTS most recently added alerts (since the last
\* clear_alerts), most recent first; get_recent_alerts(count) returns its
\* first count alerts and get_latest_alert the most recent one.
C6_AlertsBoundedMostRecentFirst ==
    /\ Len(alerts_) <= MAX_ALERTS
    /\ alerts_ = Reverse(LastN(added, MAX_ALERTS))
    /\ (ret.op = "get_recent_alerts" =>
            ret.val = FirstN(Reverse(LastN(added, MAX_ALERTS)), ret.count))
    /\ (ret.op = "get_latest_alert" =>
            ret.val = IF added = <<>> THEN Nullopt ELSE added[Len(added)])

\* C6 witness: get_recent_alerts after MAX_ALERTS + 1 alerts returns the
\* MAX_ALERTS most recent, newest first, the first alert gone.
C6_Witness ==
    /\ ret.op = "get_recent_alerts"
    /\ Len(added) = MAX_ALERTS + 1
    /\ Len(ret.val) = MAX_ALERTS
    /\ ret.val[1] = added[MAX_ALERTS + 1]
    /\ ret.val[MAX_ALERTS] = added[2]

\* C7: has_new_alerts returns true exactly when at least one add_alert has
\* set the flag since the previous has_new_alerts call, and leaves the flag
\* clear; the flag is set exactly while such alerts are still unreported, so
\* a batch is reported once and no alert is lost.
C7_NewAlertsOncePerBatch ==
    /\ has_new_alerts_ = (unreported > 0)
    /\ (ret.op = "has_new_alerts" =>
            /\ ret.val = (ret.batch > 0)
            /\ ~has_new_alerts_
            /\ unreported = 0)

\* C7 witness: one has_new_alerts call reports a batch of two alerts.
C7_Witness ==
    /\ ret.op = "has_new_alerts"
    /\ ret.val = TRUE
    /\ ret.batch = 2

\* The log lines of the entries of the history ts.
LinesOf(ts) == [i \in 1 .. Len(ts) |-> format_full(ts[i].alert)]

\* The add_alert call ran with a log file configured.
LogConfigured(t) == t.configured

\* The add_alert call ran with a log file configured and could open it.
LogOpened(t) == t.configured /\ t.opened

\* s is a prefix of t.
IsPrefix(s, t) == Len(s) <= Len(t) /\ SubSeq(t, 1, Len(s)) = s

EntryMatchesRecord(entry, pkt) ==
    \/ pkt.hostname /= <<>> /\ matches_hostname(entry, pkt.hostname)
    \/ matches_ip(entry, pkt.src_ip)
    \/ matches_ip(entry, pkt.dst_ip)

\* The positions, in load order, of the watchlist entries matching the record.
WatchHits(pkt) ==
    {k \in 1 .. Len(wl_entries_) : EntryMatchesRecord(wl_entries_[k], pkt)}

\* The positions, in load order, of the description entries matching the name.
DescHits(hostname) ==
    {k \in 1 .. Len(db_entries_) : description_matches(db_entries_[k], hostname)}

First(hits) == CHOOSE k \in hits : \A j \in hits : k <= j

\* C9: both pattern databases are first-match-wins in load order.  check
\* returns the first loaded entry that matches the record by host name (if
\* present), source or destination address, and nothing when none matches;
\* lookup returns the category and description of the first loaded entry
\* that matches the host name; check_and_mark marks the record with the
\* label of that first entry and leaves the record unchanged when nothing
\* matches.
C9_FirstMatchWins ==
    /\ ret.op = "check" =>
         IF WatchHits(ret.pkt) = {} THEN ret.val = Nullopt
         ELSE ret.val = wl_entries_[First(WatchHits(ret.pkt))]
    /\ ret.op = "lookup" =>
         IF DescHits(ret.hostname) = {} THEN ret.val = Nullopt
         ELSE /\ ret.val.category = db_entries_[First(DescHits(ret.hostname))].category
              /\ ret.val.description
                     = db_entries_[First(DescHits(ret.hostname))].description
    /\ ret.op = "check_and_mark" =>
         IF WatchHits(ret.pkt) = {}
         THEN ~ret.val.matched /\ ret.val.pkt = ret.pkt
         ELSE /\ ret.val.matched
              /\ ret.val.pkt.watchlist_match
              /\ ret.val.pkt.watchlist_label
                     = wl_entries_[First(WatchHits(ret.pkt))].label

\* A check of a record that several loaded entries with different labels
\* match, the first of them not being the first entry of the table.
C9_Witness ==
    /\ ret.op = "check"
    /\ Cardinality(WatchHits(ret.pkt)) >= 2
    /\ First(WatchHits(ret.pkt)) > 1
    /\ \E k \in WatchHits(ret.pkt) : wl_entries_[k].label /= ret.val.label
    /\ ret.val = wl_entries_[First(WatchHits(ret.pkt))]

\* The decimal digits of a prefix length between 0 and 32.
ValidPrefix(s) ==
    /\ Len(s) \in 1 .. 2
    /\ \A k \in 1 .. Len(s) : IsDigit(s[k])
    /\ decimal_value(s, Len(s)) \in 0 .. 32

\* A dotted-quad address, a slash, and a prefix length between 0 and 32.
ValidRange(p) ==
    /\ find(p, "/") /= 0
    /\ inet_pton_ok(SubSeq(p, 1, find(p, "/") - 1))
    /\ ValidPrefix(SubSeq(p, find(p, "/") + 1, Len(p)))

\* The line is well formed: at least three fields, a pattern that is not
\* empty, a known match type, a regex that compiles, a valid address, a
\* valid range with a prefix in 0..32.
ValidWatchFields(fields) ==
    /\ Len(fields) >= 3
    /\ trim(fields[2]) /= <<>>
    /\ \/ ToLower(trim(fields[1])) = <<"e", "x", "a", "c", "t">>
       \/ /\ ToLower(trim(fields[1])) = <<"w", "i", "l", "d", "c", "a", "r", "d">>
          /\ regex_compiles(wildcard_to_regex(trim(fields[2])))
       \/ /\ ToLower(trim(fields[1])) = <<"r", "e", "g", "e", "x">>
          /\ regex_compiles(trim(fields[2]))
       \/ /\ ToLower(trim(fields[1])) = <<"i", "p">>
          /\ inet_pton_ok(trim(fields[2]))
       \/ /\ ToLower(trim(fields[1])) = <<"c", "i", "d", "r">>
          /\ ValidRange(trim(fields[2]))

\* The match type a type field names.
MatchTypeOf(type_str) ==
    IF type_str = <<"e", "x", "a", "c", "t">> THEN "EXACT"
    ELSE IF type_str = <<"w", "i", "l", "d", "c", "a", "r", "d">> THEN "WILDCARD"
    ELSE IF type_str = <<"r", "e", "g", "e", "x">> THEN "REGEX"
    ELSE IF type_str = <<"i", "p">> THEN "IP"
    ELSE "CIDR"

\* The type, pattern and label of the well-formed lines of a file, in line
\* order.
ValidEntriesOf(file) ==
    LET lines == read_config_lines(file)
        fields == [k \in 1 .. Len(lines) |-> parse_fields(lines[k], ":")]
        valid == SelectSeq(fields, ValidWatchFields)
    IN  [k \in 1 .. Len(valid) |->
            <<MatchTypeOf(ToLower(trim(valid[k][1]))), trim(valid[k][2]),
              trim(valid[k][3])>>]

\* The type, pattern and label of the entries of the table, in order.
TableEntries ==
    [k \in 1 .. Len(wl_entries_) |->
        <<wl_entries_[k].type, wl_entries_[k].pattern, wl_entries_[k].label>>]

\* C10: after load(source) the table consists exactly of the valid entries
\* of that source in line order, with no entry of an earlier load; every
\* malformed line is skipped; the returned count equals size().
C10_Original ==
    ret.op = "load" =>
        /\ TableEntries = ValidEntriesOf(WatchFiles[ret.filepath])
        /\ ret.val = Len(wl_entries_)


(***************************************************************************)
(* Properties of network-range matching (SpecCidr).                        *)
(***************************************************************************)
\* The 32-bit word with its p high bits set, as four bytes.
MaskOf(p) ==
    [k \in 1 .. 4 |->
        LET bits == IF p - 8 * (k - 1) > 8 THEN 8
                    ELSE IF p - 8 * (k - 1) < 0 THEN 0
                    ELSE p - 8 * (k - 1)
        IN  256 - 2 ^ (8 - bits)]

\* C11: for every network-range entry address/p with 0 <= p <= 32 and every
\* IPv4 candidate c, matches_ip(c) holds exactly when
\* (c & mask(p)) = (address & mask(p)), mask(p) having its p high bits set;
\* a /0 entry matches all addresses, a /32 entry only the exact address.
C11_Original ==
    ret.op = "matches_ip" =>
        (ret.val <=>
            BitAnd32(inet_pton_value(ret.ip), MaskOf(ret.prefix))
                = BitAnd32(inet_pton_value(ret.address), MaskOf(ret.prefix)))

(***************************************************************************)
(* Properties of wildcard matching (SpecWild).                             *)
(***************************************************************************)
\* h ends, whatever the case of the letters, with a dot and D.
EndsWithDotDomain(h, D) ==
    /\ Len(h) >= Len(D) + 1
    /\ SubSeq(ToLower(h), Len(h) - Len(D), Len(h)) = <<".">> \o ToLower(D)

\* C12: in the watchlist and in the description table, a wildcard pattern
\* *.D matches a host name h, case-insensitively, exactly when h is a
\* non-empty prefix followed by .D: not bare D, not D.evil.com, not a host
\* name whose prefix before .D is empty.
C12_Original ==
    ret.op \in {"wildcard_watch", "wildcard_desc"} =>
        (ret.val <=> /\ EndsWithDotDomain(ret.hostname, ret.domain)
                     /\ Len(ret.hostname) > Len(ret.domain) + 1)

(***************************************************************************)
(* Properties of parse_dns_name (SpecDns).                                 *)
(***************************************************************************)
RECURSIVE FirstPointerFrom(_, _)
\* Walking the labels from pos on: the position of the first pointer met.
FirstPointerFrom(data, pos) ==
    IF data[pos + 1] >= 192 THEN pos
    ELSE FirstPointerFrom(data, pos + 1 + data[pos + 1])

RECURSIVE LabelsAlong(_, _, _)
\* The labels reached from pos on along the pointer chain, following at
\* most jumps_left pointers and stopping at the terminator, at a label or
\* pointer cut by the end of the buffer, or outside the buffer.
LabelsAlong(data, pos, jumps_left) ==
    IF pos >= Len(data) \/ jumps_left = 0 \/ data[pos + 1] = 0 THEN <<>>
    ELSE IF data[pos + 1] >= 192
    THEN IF pos + 1 >= Len(data) THEN <<>>
         ELSE LabelsAlong(data, (data[pos + 1] - 192) * 256 + data[pos + 2],
                          jumps_left - 1)
    ELSE IF pos + 1 + data[pos + 1] > Len(data) THEN <<>>
    ELSE <<SubSeq(data, pos + 2, pos + 1 + data[pos + 1])>>
             \o LabelsAlong(data, pos + 1 + data[pos + 1], jumps_left)

RECURSIVE DotJoin(_)
\* The labels joined by dots (byte 46).
DotJoin(labels) ==
    IF labels = <<>> THEN <<>>
    ELSE IF Len(labels) = 1 THEN labels[1]
    ELSE labels[1] \o <<46>> \o DotJoin(Tail(labels))

\* The run began at a pointer that it followed.
StartedAtPointer ==
    /\ ret.val.jumped
    /\ FirstPointerFrom(ret.data, ret.offset) = ret.offset

\* The name parse_dns_name returns when started at the target of the
\* pointer at the start offset.
NameAtTarget ==
    parse_dns_name(ret.data, Len(ret.data),
                   PointerTarget(ret.data[ret.offset + 1],
                                 ret.data[ret.offset + 2])).name

\* The end offset was assigned once, to the position just after the first
\* pointer.
OffsetSetOnceAfterFirstPointer ==
    /\ ret.val.offset = FirstPointerFrom(ret.data, ret.offset) + 2
    /\ ret.val.offset_writes = 1

\* C13 as stated: when parse_dns_name follows one or more compression
\* pointers, parsing at a pointer yields the same name as parsing at its
\* target, and the end offset is set exactly once, to the position just
\* after the first pointer.
C13_Original ==
    ret.op = "parse_dns_name" /\ ret.val.jumped =>
        /\ StartedAtPointer => ret.val.name = NameAtTarget
        /\ OffsetSetOnceAfterFirstPointer

\* C13, amended: when parse_dns_name follows one or more compression
\* pointers the end offset is set exactly once, to the position just after
\* the first pointer, and the name is the dot-joined labels reached along
\* the chain until max_jumps pointers have been followed; a run that began
\* at a pointer and followed fewer than max_jumps pointers returns the name
\* that parsing at the pointer's target returns.
C13_NameAlongChainOffsetAfterFirstPointer ==
    ret.op = "parse_dns_name" /\ ret.val.jumped =>
        /\ StartedAtPointer /\ ret.val.jump_count < max_jumps
               => ret.val.name = NameAtTarget
        /\ ret.val.name = DotJoin(LabelsAlong(ret.data, ret.offset, max_jumps))
        /\ OffsetSetOnceAfterFirstPointer

\* A run that began at a pointer, followed a second pointer at another
\* position, read a label and stopped before the cap.
C13_Witness ==
    /\ ret.op = "parse_dns_name"
    /\ StartedAtPointer
    /\ ret.val.jump_count = 2
    /\ ret.val.jump_count < max_jumps
    /\ ret.val.name /= <<>>
    /\ ret.val.name = NameAtTarget
    /\ ret.val.offset = ret.offset + 2

\* C14: parse_dns_name terminates on every buffer and start offset, also
\* when the pointers form a cycle or point at themselves: it follows at
\* most max_jumps pointers, makes a bounded number of iterations, and never
\* reads a byte at an index >= the supplied length.
C14_BoundedJumpsAndReads ==
    ret.op = "parse_dns_name" =>
        /\ ret.val.jump_count <= max_jumps
        /\ ret.val.steps <= (max_jumps + 1) * (Len(ret.data) + 1)
        /\ \A i \in ret.val.reads : i < Len(ret.data)

\* A run on a pointer that points at itself, stopped by the cap after
\* reading the last byte of the buffer.
C14_Witness ==
    /\ ret.op = "parse_dns_name"
    /\ ret.val.jump_count = max_jumps
    /\ PointerTarget(ret.data[ret.offset + 1], ret.data[ret.offset + 2])
           = ret.offset
    /\ Len(ret.data) - 1 \in ret.val.reads

(***************************************************************************)
(* Properties of the parsers of packet.cpp.                                *)
(***************************************************************************)
\* C16: every byte index read by parse_packet, and by the DNS, HTTP and TLS
\* parsers it dispatches to, is below the captured length, whatever the
\* length fields of the frame declare.
C16_ReadsBelowCaptured ==
    ret.op \in {"parse_packet", "parse_tls_client_hello"}
        => ret.val.read_end <= Len(ret.data)

\* A capture cut short inside a doubly tagged DNS query over IPv4: the
\* name was still decoded, from bytes all below the captured length.
C16_Witness ==
    /\ ret.op = "parse_packet"
    /\ Len(ret.data) < ret.val.original_length
    /\ U16(ret.data, 12) = 33024
    /\ ret.val.ether_type = ETHERTYPE_IPV4
    /\ ret.val.app_protocol = "DNS"
    /\ ret.val.hostname = <<97, 46, 105, 111>>
    /\ ret.val.read_end <= Len(ret.data)

\* Where the session id of the hello ends, by its declared length.
SessionIdEnd(data) == 44 + ReadByte(data, 43)

\* Where the cipher suites end, by their declared length.
CipherSuitesEnd(data) == SessionIdEnd(data) + 2 + U16(data, SessionIdEnd(data))

\* Where the compression methods end, by their declared length.
CompressionEnd(data) == CipherSuitesEnd(data) + 1 + ReadByte(data, CipherSuitesEnd(data))

\* The buffer is a ClientHello up to and including the session id length.
IsClientHello(data) ==
    Len(data) >= 44 /\ ReadByte(data, 0) = 22 /\ ReadByte(data, 5) = 1

\* The session id, the cipher suites or the compression methods declare a
\* length that runs past the end of the buffer.
LeadingFieldOverruns(data) ==
    /\ IsClientHello(data)
    /\ \/ SessionIdEnd(data) > Len(data)
       \/ /\ SessionIdEnd(data) + 2 <= Len(data)
          /\ CipherSuitesEnd(data) > Len(data)
       \/ /\ SessionIdEnd(data) + 2 <= Len(data)
          /\ CipherSuitesEnd(data) + 1 <= Len(data)
          /\ CompressionEnd(data) > Len(data)

\* All three leading fields fit and the extensions length is present.
ReachesExtensions(data) ==
    /\ IsClientHello(data)
    /\ SessionIdEnd(data) + 2 <= Len(data)
    /\ CipherSuitesEnd(data) + 1 <= Len(data)
    /\ CompressionEnd(data) + 2 <= Len(data)

\* The extensions block declares a length that runs past the end.
ExtensionsBlockOverruns(data) ==
    /\ ReachesExtensions(data)
    /\ CompressionEnd(data) + 2 + U16(data, CompressionEnd(data)) > Len(data)

\* The first extension declares a length that runs past the end.
FirstExtensionOverruns(data) ==
    /\ ReachesExtensions(data)
    /\ CompressionEnd(data) + 6 <= Len(data)
    /\ CompressionEnd(data) + 6 + U16(data, CompressionEnd(data) + 4) > Len(data)

\* The first extension is a server_name extension that fits, and its entry
\* declares a name that runs past the end.
FirstServerNameOverruns(data) ==
    /\ ReachesExtensions(data)
    /\ ~FirstExtensionOverruns(data)
    /\ CompressionEnd(data) + 11 <= Len(data)
    /\ U16(data, CompressionEnd(data) + 2) = 0
    /\ CompressionEnd(data) + 11 + U16(data, CompressionEnd(data) + 9) > Len(data)

\* The parser left the record as it got it: no hostname, no protocol tag.
HostnameUnset(info) ==
    info.hostname = <<>> /\ info.app_protocol = "" /\ info.app_info = <<>>

\* C17 as stated: whenever any length-prefixed field (session id, cipher
\* suites, compression methods, the extensions block, an individual
\* extension, the server-name entry) declares a length that exceeds the
\* bytes remaining, parsing aborts and the hostname is left unset.
C17_Original ==
    (/\ ret.op = "parse_tls_client_hello"
     /\ \/ LeadingFieldOverruns(ret.data)
        \/ ExtensionsBlockOverruns(ret.data)
        \/ FirstExtensionOverruns(ret.data)
        \/ FirstServerNameOverruns(ret.data))
        => HostnameUnset(ret.val)

\* C17: a session id, cipher-suite list or compression list that runs past
\* the end of the buffer, and a first extension that does, leave the
\* hostname unset; an extensions block that runs past the end is cut to the
\* buffer and walked, and a server-name entry that does not fit is passed
\* over, so a hostname that is set is always a server name held wholly
\* within the buffer, in an extension of type 0 that fits in it.
C17_OverrunLeavesUnsetOrNameWithinBuffer ==
    ret.op = "parse_tls_client_hello" =>
        /\ (LeadingFieldOverruns(ret.data) \/ FirstExtensionOverruns(ret.data))
               => HostnameUnset(ret.val)
        /\ ~HostnameUnset(ret.val) =>
               /\ ReachesExtensions(ret.data)
               /\ ret.val.app_protocol = "TLS"
               /\ \E pos \in CompressionEnd(ret.data) + 2 .. Len(ret.data) - 9 :
                      /\ U16(ret.data, pos) = 0
                      /\ pos + 4 + U16(ret.data, pos + 2) <= Len(ret.data)
                      /\ ReadByte(ret.data, pos + 6) = 0
                      /\ pos + 9 + U16(ret.data, pos + 7)
                             <= pos + 4 + U16(ret.data, pos + 2)
                      /\ ret.val.hostname
                             = SubSeq(ret.data, pos + 10, pos + 9 + U16(ret.data, pos + 7))

\* A hello whose cipher-suite list runs past the end, the session id
\* fitting: nothing was set.  And the walk did reach the list's length.
C17_Witness ==
    /\ ret.op = "parse_tls_client_hello"
    /\ IsClientHello(ret.data)
    /\ SessionIdEnd(ret.data) + 2 <= Len(ret.data)
    /\ CipherSuitesEnd(ret.data) > Len(ret.data)
    /\ Len(ret.data) > 60
    /\ ret.val.read_end = SessionIdEnd(ret.data) + 2
    /\ HostnameUnset(ret.val)

RECURSIVE TagEnd(_, _)
\* Where the network layer of a frame starts: after the Ethernet header
\* and every VLAN tag that is wholly captured.
TagEnd(data, off) ==
    IF U16(data, off - 2) = 33024 /\ off + 4 <= Len(data)
    THEN TagEnd(data, off + 4) ELSE off

\* The ethertype in effect, and the bytes captured from the network layer on.
NetworkType(data) == U16(data, TagEnd(data, 14) - 2)

NetworkRemaining(data) == Len(data) - TagEnd(data, 14)

\* The size of the fixed network header of the frame's ethertype.
NetworkFixed(data) ==
    CASE NetworkType(data) = ETHERTYPE_IPV4 -> 20
      [] NetworkType(data) = ETHERTYPE_IPV6 -> 40
      [] NetworkType(data) = ETHERTYPE_ARP -> 28
      [] OTHER -> 0

\* The IPv4 header length the frame declares.
Ipv4Declared(data) == (ReadByte(data, TagEnd(data, 14)) % 16) * 4

\* The capture ends inside the fixed part of the network header.
TruncatedInNetworkFixed(data) ==
    Len(data) >= 14 /\ NetworkRemaining(data) < NetworkFixed(data)

\* The fixed IPv4 header is captured, the header it declares is not.
TruncatedInIpv4Options(data) ==
    /\ Len(data) >= 14 /\ NetworkType(data) = ETHERTYPE_IPV4
    /\ NetworkRemaining(data) >= 20
    /\ NetworkRemaining(data) < Ipv4Declared(data)

\* The whole IP header is captured.
NetworkComplete(data) ==
    /\ Len(data) >= 14
    /\ NetworkType(data) \in {ETHERTYPE_IPV4, ETHERTYPE_IPV6}
    /\ NetworkRemaining(data) >= NetworkFixed(data)
    /\ NetworkType(data) = ETHERTYPE_IPV4 => Ipv4Declared(data) <= NetworkRemaining(data)

\* Where the transport header starts, its protocol, and the bytes captured
\* from there on.
TransportOffset(data) ==
    TagEnd(data, 14)
        + (IF NetworkType(data) = ETHERTYPE_IPV4 THEN Ipv4Declared(data) ELSE 40)

TransportProtocol(data) ==
    ReadByte(data, TagEnd(data, 14)
                       + (IF NetworkType(data) = ETHERTYPE_IPV4 THEN 9 ELSE 6))

TransportRemaining(data) == Len(data) - TransportOffset(data)

\* The capture ends inside the fixed part of the TCP or UDP header.
TruncatedInTransportFixed(data) ==
    /\ NetworkComplete(data)
    /\ \/ TransportProtocol(data) = PROTO_TCP /\ TransportRemaining(data) < 20
       \/ TransportProtocol(data) = PROTO_UDP /\ TransportRemaining(data) < 8

\* The fixed TCP header is captured, the header its data offset declares
\* is not.
TruncatedInTcpOptions(data) ==
    /\ NetworkComplete(data)
    /\ TransportProtocol(data) = PROTO_TCP
    /\ TransportRemaining(data) >= 20
    /\ TransportRemaining(data)
           < (ReadByte(data, TransportOffset(data) + 12) \div 16) * 4

\* The fields of each layer, set from the frame or at their defaults.
LinkSet(info, data) ==
    /\ info.dst_mac = SubSeq(data, 1, 6) /\ info.src_mac = SubSeq(data, 7, 12)
    /\ info.ether_type = NetworkType(data)

NetworkDefault(info) ==
    /\ info.ip_version = 0 /\ info.protocol = 0 /\ info.ttl = 0
    /\ info.src_ip = <<>> /\ info.dst_ip = <<>>

NetworkSet(info, data) ==
    /\ info.ip_version = (IF NetworkType(data) = ETHERTYPE_IPV4 THEN 4 ELSE 6)
    /\ info.protocol = TransportProtocol(data)
    /\ info.src_ip /= <<>> /\ info.dst_ip /= <<>>

TransportDefault(info) ==
    info.src_port = 0 /\ info.dst_port = 0 /\ info.tcp_flags = 0

TransportSet(info, data) ==
    /\ info.src_port = U16(data, TransportOffset(data))
    /\ info.dst_port = U16(data, TransportOffset(data) + 2)

\* C15 as stated: a buffer shorter than the Ethernet header gives a record
\* with ip_version 0, the captured length and no addresses, ports or
\* hostname; a frame truncated inside the L3 or L4 header has the fields
\* of the complete outer layers set and every deeper field at its default.
C15_Original ==
    ret.op = "parse_packet" =>
        /\ Len(ret.data) < 14 =>
               /\ ret.val.length = Len(ret.data)
               /\ NetworkDefault(ret.val) /\ TransportDefault(ret.val)
               /\ HostnameUnset(ret.val)
        /\ (TruncatedInNetworkFixed(ret.data) \/ TruncatedInIpv4Options(ret.data)) =>
               /\ LinkSet(ret.val, ret.data)
               /\ NetworkDefault(ret.val) /\ TransportDefault(ret.val)
               /\ HostnameUnset(ret.val)
        /\ (TruncatedInTransportFixed(ret.data) \/ TruncatedInTcpOptions(ret.data)) =>
               /\ LinkSet(ret.val, ret.data) /\ NetworkSet(ret.val, ret.data)
               /\ TransportDefault(ret.val) /\ HostnameUnset(ret.val)

\* C15: parse_packet returns a record for every truncation.  Below 14
\* bytes it is the default record with the captured length.  A frame cut
\* inside the fixed part of a network or transport header has the outer
\* layers set and that layer and all deeper ones at their defaults.  A
\* frame whose fixed IPv4 or TCP header is captured but whose declared
\* header length runs past the end has that layer's fixed fields set and
\* every deeper field at its default.
C15_StopsAtFirstLayerWhoseFixedHeaderIsCut ==
    ret.op = "parse_packet" =>
        /\ ret.val.length = Len(ret.data)
        /\ ret.val.raw_data = ret.data
        /\ Len(ret.data) < 14 =>
               ret.val = DefaultInfo(ret.data, Len(ret.data), ret.val.original_length)
        /\ TruncatedInNetworkFixed(ret.data) =>
               /\ LinkSet(ret.val, ret.data)
               /\ NetworkDefault(ret.val) /\ TransportDefault(ret.val)
               /\ HostnameUnset(ret.val)
        /\ TruncatedInIpv4Options(ret.data) =>
               /\ LinkSet(ret.val, ret.data) /\ NetworkSet(ret.val, ret.data)
               /\ TransportDefault(ret.val) /\ HostnameUnset(ret.val)
        /\ TruncatedInTransportFixed(ret.data) =>
               /\ LinkSet(ret.val, ret.data) /\ NetworkSet(ret.val, ret.data)
               /\ TransportDefault(ret.val) /\ HostnameUnset(ret.val)
        /\ TruncatedInTcpOptions(ret.data) =>
               /\ LinkSet(ret.val, ret.data) /\ NetworkSet(ret.val, ret.data)
               /\ TransportSet(ret.val, ret.data) /\ HostnameUnset(ret.val)

\* A tagged IPv4 frame cut inside the fixed UDP header: link and network
\* fields are set, the ports are not.
C15_Witness ==
    /\ ret.op = "parse_packet"
    /\ U16(ret.data, 12) = 33024
    /\ TruncatedInTransportFixed(ret.data)
    /\ TransportRemaining(ret.data) > 4
    /\ ret.val.ip_version = 4 /\ ret.val.src_ip = <<49, 48, 46, 48, 46, 48, 46, 49>>
    /\ TransportDefault(ret.val)

(***************************************************************************)
(* Properties of the process mapper.                                       *)
(***************************************************************************)
\* C18: a lookup walks the tables of /proc only if no refresh is on record
\* since the mapper was constructed or cleared, or the last refresh (the call
\* of the lookup that walked, or the return of refresh()) is at least
\* cache_ttl_ old; the two lookups of one lookup_packet walk at most once.
C18_LookupWalksOnlyOutsideTtlWindow ==
    /\ ret.op \in {"lookup", "lookup_packet"} /\ ret.walked => ~ret.in_window
    /\ ret.op = "lookup_packet" => ret.walks <= 1

\* A lookup that walked because the TTL of an earlier refresh had run out.
C18_Witness == ret.op = "lookup" /\ ret.walked /\ ret.populated

\* The key the arguments of the last lookup stand for.
RetKey == lookup_key(ret.args[1], ret.args[2], ret.args[3], ret.args[4], ret.args[5])

\* Both addresses of the last lookup are IPv4 text.
RetIsIpv4 == inet_pton_ok(ret.args[1]) /\ inet_pton_ok(ret.args[3])

\* C19 as stated: whenever the table holds the tuple with local and remote
\* swapped, lookup returns the process owning that socket, and lookup_packet
\* returns an owner, the same for the packets of either direction.
C19_Original ==
    /\ ret.op = "lookup" /\ RetIsIpv4 /\ MapHas(socket_table_, swapped_key(RetKey))
       => /\ ret.val /= Nullopt
          /\ ret.val = lookup_inode(MapperState, MapGet(socket_table_, swapped_key(RetKey)))
    /\ ret.op = "lookup_packet" /\ RetIsIpv4
       /\ (MapHas(socket_table_, RetKey) \/ MapHas(socket_table_, swapped_key(RetKey)))
       => ret.val /= Nullopt /\ ret.val = ret.reverse

\* C19: when the table holds the swapped tuple and not the tuple asked for,
\* lookup returns what the identifier-to-process map holds for that socket's
\* inode, nothing if it holds nothing; when the table holds the tuple asked
\* for, that socket's entry is returned instead.  lookup_packet returns the
\* same for either direction when the table holds just one of the two tuples.
C19_SwappedLookupFindsTheOnlySocket ==
    /\ ret.op = "lookup" /\ RetIsIpv4 /\ MapHas(socket_table_, swapped_key(RetKey))
       /\ ~MapHas(socket_table_, RetKey)
       => ret.val = lookup_inode(MapperState, MapGet(socket_table_, swapped_key(RetKey)))
    /\ ret.op = "lookup" /\ RetIsIpv4 /\ MapHas(socket_table_, RetKey)
       => ret.val = lookup_inode(MapperState, MapGet(socket_table_, RetKey))
    /\ ret.op = "lookup_packet" /\ RetIsIpv4
       /\ MapHas(socket_table_, RetKey) /= MapHas(socket_table_, swapped_key(RetKey))
       => /\ ret.val = ret.reverse
          /\ ret.val = lookup_inode(MapperState,
                                    MapGet(socket_table_,
                                           IF MapHas(socket_table_, RetKey) THEN RetKey
                                           ELSE swapped_key(RetKey)))

\* A lookup from the remote end's perspective that found the owner.
C19_Witness ==
    /\ ret.op = "lookup" /\ RetIsIpv4
    /\ MapHas(socket_table_, swapped_key(RetKey)) /\ ~MapHas(socket_table_, RetKey)
    /\ ret.val /= Nullopt

\* The members a mapper that had read nothing would hold after walking what
\* /proc shows now.
Rebuilt == walk_tables(ClearedState, proc_fs)

\* The inodes of a map with the pids they are attributed to.
PidsOf(m) == {<<p[1], p[2].pid>> : p \in m}

\* C20 as stated: after a walk of the tables, by refresh() or by a lookup,
\* the socket table and the identifier-to-process map hold exactly what was
\* read during the walk, and a lookup that walked finds no socket that /proc
\* no longer shows.
C20_Original ==
    /\ ret.op \in {"refresh", "lookup", "lookup_packet"} /\ ret.walked
       => /\ socket_table_ = Rebuilt.socket_table
          /\ PidsOf(inode_to_process_) = PidsOf(Rebuilt.inode_to_process)
    /\ ret.op = "lookup" /\ ret.walked /\ ret.val /= Nullopt
       => lookup_tables(Rebuilt, ret.args[1], ret.args[2], ret.args[3], ret.args[4],
                        ret.args[5]) /= Nullopt

\* C21: clear() leaves the socket table, the identifier-to-process map and
\* the name cache empty and the refresh time at the never-populated value;
\* until the tables are walked again cache_size() and socket_table_size()
\* return 0, and a lookup walks the tables however recently they were walked
\* before the clear.
C21_ClearDropsAllAndForcesRefresh ==
    /\ ret.op = "clear"
       => /\ socket_table_ = {} /\ inode_to_process_ = {} /\ process_name_cache_ = {}
          /\ last_socket_refresh_ = 0
    /\ ret.op \in {"cache_size", "socket_table_size"} /\ ~pm_log.populated => ret.val = 0
    /\ ret.op \in {"lookup", "lookup_packet"} /\ ~ret.populated => ret.walked

\* A lookup that walked after a clear, less than the TTL after a refresh.
C21_Witness ==
    ret.op = "lookup" /\ ~ret.populated /\ ret.recent /\ ret.walked

\* Whether store pk holds the records of kept in order at its front, but for
\* the oldest of them that pushes evicted from a store at capacity.
KeptButForEviction(kept, pk) ==
    \E k \in 0 .. Len(kept) :
      /\ Len(pk) >= Len(kept) - k
      /\ SubSeq(pk, 1, Len(kept) - k) = SubSeq(kept, k + 1, Len(kept))
      /\ k > 0 => Len(pk) = MAX_PACKETS

\* stop() has returned from cancelling a capture that was running.
StopReturned == ret.op = "stop" /\ stop_log.cancelled

\* What holds when stop() returns from cancelling a running capture: the
\* thread was joined and has left the loop, and at most one batch was pushed
\* since the cancellation.
StoppedAndJoined ==
    /\ stop_log.joined
    /\ capture_thread_ = "none"
    /\ ~InLoop
    /\ cap_pc = "idle"
    /\ npush - stop_log.npush_at <= DispatchCount

\* C22 as stated: once stop is called on a running capture the loop
\* eventually exits after at most the batch in progress, stop returns only
\* after the thread was joined, nothing is pushed once it has returned, and
\* every record pushed before the cancellation is still in the store.
C22_Original ==
    /\ [](StopReturned => StoppedAndJoined)
    /\ [](StopReturned
          => /\ Len(packets_) >= Len(stop_log.kept)
             /\ SubSeq(packets_, 1, Len(stop_log.kept)) = stop_log.kept)
    /\ [][~InLoop => npush' = npush]_vars
    /\ (ui_pc = "break" ~> ~InLoop)
    /\ (ui_pc = "break" ~> ui_pc = "stopped")

\* C22: once stop is called on a running capture the loop eventually exits
\* after at most the batch in progress, stop returns only after the thread
\* was joined, nothing is pushed while no thread is in the loop, and the
\* records the store held at the cancellation are still in it when stop
\* returns, but for the oldest ones that the pushes of the batch in progress
\* evicted from the store at capacity.
C22_StopJoinsAndKeeps ==
    /\ [](StopReturned => StoppedAndJoined)
    /\ [](StopReturned => KeptButForEviction(stop_log.kept, packets_))
    /\ [][~InLoop => npush' = npush]_vars
    /\ (ui_pc = "break" ~> ~InLoop)
    /\ (ui_pc = "break" ~> ui_pc = "stopped")

\* stop() returned after the batch in progress pushed into the full store.
C22_Witness ==
    /\ StopReturned
    /\ stop_log.joined
    /\ npush > stop_log.npush_at
    /\ Len(stop_log.kept) = MAX_PACKETS
    /\ packets_[1].seq > stop_log.kept[1].seq

\* C28 as stated: after open(name) succeeds the statistics of the store
\* carry that name and zeroed counters, and get_stats() returns the name of
\* the open interface for as long as it stays open.
C28_Original ==
    /\ ret.op = "open" /\ ret.val
       => /\ stats_.name = ret.name
          /\ stats_.packets_received = 0
          /\ stats_.bytes_received = 0
    /\ ret.op = "get_stats" /\ handle_ = "open" => ret.val.name = interface_name_

\* C29 as stated: is_running() returns true only while the capture thread
\* is inside the loop of capture_loop, so it returns false once the loop was
\* left through stop(), a break or an error of the capture source.
C29_Original == ret.op = "is_running" /\ ret.val => ret.in_loop

\* C23 as stated: a record is pushed with its watchlist flag and its
\* category already set to what the watchlist and the description database
\* answer, so that no reader classifies a stored record itself, and the
\* stored records stay as they were pushed.
C23_Original ==
    /\ ret.op = "packet_callback"
       => /\ ret.val.watchlist_match = ret.watch
          /\ ret.desc /= Nullopt => ret.val.category = ret.desc.category
    /\ ret.op = "get_category" => ret.val.from /= "database"
    /\ packets_ = SubSeq(pushed, Len(pushed) - Len(packets_) + 1, Len(pushed))

RECURSIVE EscapedAt(_, _)
\* Whether the character at position i of line is escaped: a backslash that
\* is not itself escaped stands right before it.
EscapedAt(line, i) == i > 1 /\ line[i - 1] = "\\" /\ ~EscapedAt(line, i - 1)

\* The positions of the unescaped delimiters of line.
SplitPoints(line, delimiter) ==
    {i \in 1 .. Len(line) : line[i] = delimiter /\ ~EscapedAt(line, i)}

\* The k-th smallest member of a set of numbers.
KthOf(S, k) == CHOOSE x \in S : Cardinality({y \in S : y < x}) = k - 1

\* The text of line strictly between positions lo and hi, without the
\* backslashes that escape the character after them.
FieldBetween(line, lo, hi) ==
    LET positions == [j \in 1 .. hi - lo - 1 |-> lo + j]
        kept == SelectSeq(positions,
                          LAMBDA j : EscapedAt(line, j) \/ line[j] /= "\\")
    IN  [k \in 1 .. Len(kept) |-> line[kept[k]]]

\* Where field k of line begins and ends: after the (k-1)-th and before the
\* k-th unescaped delimiter, the line's ends standing for the missing ones.
FieldEdge(line, delimiter, k) ==
    IF k = 0 THEN 0
    ELSE IF k > Cardinality(SplitPoints(line, delimiter)) THEN Len(line) + 1
    ELSE KthOf(SplitPoints(line, delimiter), k)

\* C24: parse_fields returns one field more than the line has unescaped
\* delimiters, in order, each the text between two of them with the
\* escaping backslashes removed and the escaped characters (delimiters
\* among them) kept; an empty line gives one empty field and an unescaped
\* trailing delimiter a final empty field.
C24_FieldsSplitAtUnescapedDelimiters ==
    ret.op = "parse_fields"
    => /\ Len(ret.val) = Cardinality(SplitPoints(ret.line, ret.delimiter)) + 1
       /\ \A k \in 1 .. Len(ret.val) :
            ret.val[k] = FieldBetween(ret.line,
                                      FieldEdge(ret.line, ret.delimiter, k - 1),
                                      FieldEdge(ret.line, ret.delimiter, k))
       /\ ret.line = <<>> => ret.val = << <<>> >>
       /\ Len(ret.line) \in SplitPoints(ret.line, ret.delimiter)
          => ret.val[Len(ret.val)] = <<>>

\* "a\::" with the delimiter ':' gave the fields "a:" and "".
C24_Witness ==
    /\ ret.op = "parse_fields"
    /\ ret.line = <<"a", "\\", ":", ":">>
    /\ ret.delimiter = ":"
    /\ ret.val = << <<"a", ":">>, <<>> >>

\* C25 as stated: the watchlist lock is not held while an alert line is
\* written to the log file: where add_alert is about to call log_alert with
\* a log file configured, Watchlist::mutex_ is free.
C25_Original == wl_pc = "log" /\ log_filepath_ /= "" => wl_mutex_ = "free"

\* Thread t is about to take a mutex.
Locking(t) == lk_todo[t] /= <<>> /\ Head(lk_todo[t])[1] = "lock"

\* Thread t waits for a mutex that is held.
Blocked(t) == Locking(t) /\ lk_owner[Head(lk_todo[t])[2]] /= "free"

\* C26: in every interleaving of the two threads, a thread that is about
\* to take the mutex of a component holds no mutex, neither another
\* component's nor that one, and a thread that waits for a mutex waits for
\* a thread that is not waiting itself, so the threads never deadlock.
C26_NoLockNesting ==
    \A t \in Threads :
      /\ Locking(t) => HeldBy(t) = {}
      /\ Blocked(t) => ~Blocked(lk_owner[Head(lk_todo[t])[2]])

\* The capture thread waits in add_alert for the watchlist mutex while the
\* UI thread holds it.
C26_Witness ==
    /\ Blocked("capture")
    /\ Head(lk_todo["capture"])[2] = "watchlist"
    /\ lk_owner["watchlist"] = "ui"
    /\ ret.op = "call" /\ ret.thread = "capture" /\ ret.function = "add_alert"

\* The selection is 0 or the index of a stored record.
SelectionInRange == selected_index_ = 0 \/ selected_index_ < Len(packets_)

\* C27: in every state reached through push (with its eviction), clear and
\* set_selected_index the selected index is 0 or less than the number of
\* stored records; set_selected_index with an index that is out of range
\* leaves the selection as it was; and get_selected_packet returns a record
\* of the store whenever the store is not empty.
C27_SelectionStaysInRange ==
    /\ []SelectionInRange
    /\ [][ret'.op = "set_selected_index" /\ ret'.val >= Len(packets_)
          => selected_index_' = selected_index_]_vars
    /\ [](ret.op = "get_selected_packet" /\ packets_ /= <<>>
          => \E i \in 1 .. Len(packets_) : ret.val = packets_[i])

\* set_selected_index was called with an index out of range while a record
\* other than the first was selected, and the selection stayed.
C27_Witness ==
    /\ ret.op = "set_selected_index"
    /\ ret.val >= Len(packets_)
    /\ selected_index_ > 0
    /\ Len(pushed) > MAX_PACKETS

\* C30 as stated: whenever has_new_alerts returns true the alert sequence
\* is not empty, and after clear_alerts no new-alerts indication is pending.
C30_Original ==
    /\ ret.op = "has_new_alerts" /\ ret.val => alerts_ /= <<>>
    /\ ret.op = "clear_alerts" => ~has_new_alerts_

====
